---- MODULE Spec2Model ----
(***************************************************************************)
(* notelink: the schema-inference and validation engine.                   *)
(*                                                                         *)
(* Go strings that the code inspects (field names, json tags, wire names)  *)
(* are sequences of one-character strings, so that strings.Split,          *)
(* strings.Contains and strings.ToLower are computed, not assumed.         *)
(* reflect.Type is a record [kind, ...]; an interface{} value is a record  *)
(* [k, ...]; a float64 is a record [c, s, i, f] (class, sign, integer      *)
(* part, fraction in 1/10000).                                             *)
(***************************************************************************)
EXTENDS Integers, Sequences, FiniteSets, TLC

VARIABLES
    arch,       \* the build's GOARCH: decides float64 -> int64 out of range
    schema,     \* the schema value given to the entry point (NilSchema or a type)
    req,        \* the request body on the wire, NoReq before a request
    result,     \* the []ValidationError of the last validation
    pc,         \* which step ran last
    template,   \* the decoded output of generateJSONTemplate
    jsonSchema, \* the output of structToJSONSchema for the schema type
    typescript, \* the output of generateTypeScriptSchema for the schema type
    params,     \* the []Parameter declared for the route under validation
    ctx,        \* the fiber.Ctx of the request in flight: what the client sent
    an,         \* the ApiNote: registry, middleware lists, the app's routes
    resp,       \* the outcome of the last call or request
    walk,       \* the call stack of a type walk in progress
    procs       \* the calls in progress, one per goroutine

vars == <<arch, schema, req, result, pc, template, jsonSchema, typescript,
          params, ctx, an, resp, walk, procs>>

\* the state of the web layer and of the type walks
web == <<params, ctx, an, resp, walk, procs>>

-----------------------------------------------------------------------------
(* Bounds *)

MaxFields == 2

-----------------------------------------------------------------------------
(* Strings *)

Upper == <<"A","B","C","D","E","F","G","H","I","J","K","L","M",
           "N","O","P","Q","R","S","T","U","V","W","X","Y","Z">>

Lower == <<"a","b","c","d","e","f","g","h","i","j","k","l","m",
           "n","o","p","q","r","s","t","u","v","w","x","y","z">>

\* strings.ToLower on one character
ToLowerChar(c) ==
    IF \E i \in DOMAIN Upper : Upper[i] = c
    THEN Lower[CHOOSE i \in DOMAIN Upper : Upper[i] = c]
    ELSE c

\* strings.ToLower
ToLower(s) == [i \in DOMAIN s |-> ToLowerChar(s[i])]

\* strings.ToUpper on one character
ToUpperChar(c) ==
    IF \E i \in DOMAIN Lower : Lower[i] = c
    THEN Upper[CHOOSE i \in DOMAIN Lower : Lower[i] = c]
    ELSE c

\* strings.ToUpper
ToUpper(s) == [i \in DOMAIN s |-> ToUpperChar(s[i])]

\* strings.Split(s, sep) for a separator of one character
RECURSIVE Split(_, _)
Split(s, sep) ==
    IF \E i \in DOMAIN s : s[i] = sep
    THEN LET i == CHOOSE i \in DOMAIN s : s[i] = sep /\ \A j \in 1..(i - 1) : s[j] # sep
         IN  << SubSeq(s, 1, i - 1) >> \o Split(SubSeq(s, i + 1, Len(s)), sep)
    ELSE << s >>

\* strings.Contains(s, sub)
Contains(s, sub) ==
    \E i \in 1..(Len(s) - Len(sub) + 1) : SubSeq(s, i, i + Len(sub) - 1) = sub

\* strings.Split(s, ",")[0]: the part of s before its first comma
BeforeComma(s) ==
    IF \E i \in DOMAIN s : s[i] = ","
    THEN SubSeq(s, 1, (CHOOSE i \in DOMAIN s :
                          s[i] = "," /\ \A j \in 1..(i - 1) : s[j] # ",") - 1)
    ELSE s

omitempty == <<"o","m","i","t","e","m","p","t","y">>

-----------------------------------------------------------------------------
(* reflect.Type *)

Prim(kind) == [kind |-> kind]
PtrTo(t) == [kind |-> "ptr", elem |-> t]
SliceOf(t) == [kind |-> "slice", elem |-> t]
ArrayOf(t) == [kind |-> "array", elem |-> t]
MapOf(t) == [kind |-> "map", elem |-> t]
StructType(pkg, name, fields) ==
    [kind |-> "struct", pkg |-> pkg, name |-> name, fields |-> fields]

\* reflect.StructField: PkgPath is empty for an exported field, Tag is the
\* value of the json key of the struct tag (empty when there is none)
Field(name, pkgPath, tag, type) ==
    [Name |-> name, PkgPath |-> pkgPath, Tag |-> tag, Type |-> type]

IsExported(field) == field.PkgPath = ""

SignedKinds == {"int", "int8", "int16", "int32", "int64"}
UnsignedKinds == {"uint", "uint8", "uint16", "uint32", "uint64"}
FloatKinds == {"float32", "float64"}

\* time.Time: three unexported fields
TimeType ==
    StructType("time", "Time",
        << Field(<<"w","a","l","l">>, "time", <<>>, Prim("uint64")),
           Field(<<"e","x","t">>, "time", <<>>, Prim("int64")),
           Field(<<"l","o","c">>, "time", <<>>, PtrTo(Prim("uintptr"))) >>)

-----------------------------------------------------------------------------
(* interface{} values and float64 *)

NilValue == [k |-> "nil"]
StringValue(s) == [k |-> "string", s |-> s]
BoolValue(b) == [k |-> "bool", b |-> b]
IntValue(n) == [k |-> "int", n |-> n]
UintValue(n) == [k |-> "uint", n |-> n]
Float64Value(x) == [k |-> "float64", x |-> x]
SliceValue(e) == [k |-> "slice", e |-> e]
MapValue(m) == [k |-> "map", m |-> m]

\* a finite float64 of moderate size: sign s, integer part i, fraction f/10000
Fin(s, i, f) == [c |-> "fin", s |-> s, i |-> i, f |-> f]
\* s * 2^63, the first magnitude int64 cannot hold when s = 1
Two63(s) == [c |-> "two63", s |-> s, i |-> 0, f |-> 0]
\* s * 1e19, an integral float64 beyond the int64 range
Huge(s) == [c |-> "huge", s |-> s, i |-> 0, f |-> 0]

IsNegative(x) == x.s < 0 /\ (x.c # "fin" \/ x.i # 0 \/ x.f # 0)

\* mathematically integral: value == floor(value)
IsIntegral(x) == x.c # "fin" \/ x.f = 0

\* float64(int64(x)). In range the conversion truncates toward zero. Out of
\* range the Go specification leaves the int64 implementation-dependent:
\* amd64 yields -2^63, arm64 saturates; no int64 converts back to 1e19.
Float64OfInt64Of(x) ==
    CASE x.c = "fin" -> Fin(x.s, x.i, 0)
      [] x.c = "two63" /\ x.s < 0 -> x
      [] x.c = "two63" /\ x.s > 0 -> IF arch = "amd64" THEN Two63(-1) ELSE Two63(1)
      [] x.c = "huge" -> IF arch = "amd64" \/ x.s < 0 THEN Two63(-1) ELSE Two63(1)

Archs == {"amd64", "arm64"}

\* floatVal == other, on float64
NumEq(a, b) ==
    /\ a.c = b.c /\ a.i = b.i /\ a.f = b.f
    /\ (a.s = b.s \/ (a.c = "fin" /\ a.i = 0 /\ a.f = 0))

-----------------------------------------------------------------------------
(* Field naming and requiredness *)

\* getJSONFieldName: the wire name of a struct field
getJSONFieldName(field) ==
    IF field.Tag = <<>>
    THEN ToLower(SubSeq(field.Name, 1, 1)) \o SubSeq(field.Name, 2, Len(field.Name))
    ELSE BeforeComma(field.Tag)

\* validateStruct's requiredness rule: not a pointer, no omitempty in the tag
validatorIsRequired(field) ==
    LET isOmitEmpty == Contains(field.Tag, omitempty)
        isPointer == field.Type.kind = "ptr"
    IN  ~isOmitEmpty /\ ~isPointer

-----------------------------------------------------------------------------
(* Structural validator *)

ValidationError(field, message, type) ==
    [Field |-> field, Message |-> message, Type |-> type]

NoError == [Type |-> "none"]

\* validateFieldType without the case for reflect.Struct: a nested struct
\* takes any JSON value
validateFieldTypeNoStructCase(value, expectedType0, fieldName) ==
    LET expectedType == IF expectedType0.kind = "ptr" THEN expectedType0.elem
                        ELSE expectedType0
        typeError(msg) == ValidationError(fieldName, msg, "type_error")
    IN
    IF value.k = "nil" THEN NoError
    ELSE CASE expectedType.kind = "string" ->
                IF value.k # "string" THEN typeError("must be a string") ELSE NoError
           [] expectedType.kind \in SignedKinds ->
                IF value.k # "float64" THEN typeError("must be a number")
                ELSE IF ~NumEq(value.x, Float64OfInt64Of(value.x))
                     THEN typeError("must be an integer")
                     ELSE NoError
           [] expectedType.kind \in UnsignedKinds ->
                IF value.k # "float64" THEN typeError("must be a number")
                ELSE IF IsNegative(value.x) \/ ~NumEq(value.x, Float64OfInt64Of(value.x))
                     THEN typeError("must be a non-negative integer")
                     ELSE NoError
           [] expectedType.kind \in FloatKinds ->
                IF value.k \notin {"float64", "int", "int64"}
                THEN typeError("must be a number") ELSE NoError
           [] expectedType.kind = "bool" ->
                IF value.k # "bool" THEN typeError("must be a boolean") ELSE NoError
           [] expectedType.kind \in {"slice", "array"} ->
                IF value.k \notin {"slice", "array"}
                THEN typeError("must be an array") ELSE NoError
           [] expectedType.kind = "map" ->
                IF value.k # "map" THEN typeError("must be an object") ELSE NoError
           [] OTHER -> NoError

\* validateFieldType: the type check of one present, non-nil value
validateFieldType(value, expectedType0, fieldName) ==
    LET expectedType == IF expectedType0.kind = "ptr" THEN expectedType0.elem
                        ELSE expectedType0
        typeError(msg) == ValidationError(fieldName, msg, "type_error")
    IN
    IF value.k = "nil" THEN NoError
    ELSE CASE expectedType.kind = "string" ->
                IF value.k # "string" THEN typeError("must be a string") ELSE NoError
           [] expectedType.kind \in SignedKinds ->
                IF value.k # "float64" THEN typeError("must be a number")
                ELSE IF ~NumEq(value.x, Float64OfInt64Of(value.x))
                     THEN typeError("must be an integer")
                     ELSE NoError
           [] expectedType.kind \in UnsignedKinds ->
                IF value.k # "float64" THEN typeError("must be a number")
                ELSE IF IsNegative(value.x) \/ ~NumEq(value.x, Float64OfInt64Of(value.x))
                     THEN typeError("must be a non-negative integer")
                     ELSE NoError
           [] expectedType.kind \in FloatKinds ->
                IF value.k \notin {"float64", "int", "int64"}
                THEN typeError("must be a number") ELSE NoError
           [] expectedType.kind = "bool" ->
                IF value.k # "bool" THEN typeError("must be a boolean") ELSE NoError
           [] expectedType.kind \in {"slice", "array"} ->
                IF value.k \notin {"slice", "array"}
                THEN typeError("must be an array") ELSE NoError
           [] expectedType.kind = "map" ->
                IF value.k # "map" THEN typeError("must be an object") ELSE NoError
           [] expectedType.kind = "struct" ->
                IF value.k # "map" THEN typeError("must be an object") ELSE NoError
           [] OTHER -> NoError

\* which fields validateStruct looks at: exported and not tagged "-"
validatorIncludes(field) ==
    IsExported(field) /\ getJSONFieldName(field) # <<"-">>

\* validateField with JSON null taken for a present value
validateFieldNullPresent(data, field) ==
    IF ~validatorIncludes(field) THEN <<>>
    ELSE LET jsonName == getJSONFieldName(field)
             exists == jsonName \in DOMAIN data
         IN  IF validatorIsRequired(field) /\ ~exists
             THEN << ValidationError(jsonName, "is missing", "required") >>
             ELSE IF exists /\ data[jsonName] # NilValue
                  THEN LET err == validateFieldType(data[jsonName], field.Type, jsonName)
                       IN  IF err = NoError THEN <<>> ELSE <<err>>
                  ELSE <<>>

\* one iteration of validateStruct's loop: the errors field contributes
validateField(data, field) ==
    IF ~validatorIncludes(field) THEN <<>>
    ELSE LET jsonName == getJSONFieldName(field)
             isRequired == validatorIsRequired(field)
             exists == jsonName \in DOMAIN data
             value == IF exists THEN data[jsonName] ELSE NilValue
         IN  IF isRequired /\ (~exists \/ value = NilValue)
             THEN << ValidationError(jsonName, "is missing", "required") >>
             ELSE IF exists /\ value # NilValue
                  THEN LET err == validateFieldType(value, field.Type, jsonName)
                       IN  IF err = NoError THEN <<>> ELSE <<err>>
                  ELSE <<>>

\* validateFields returning at the first field in error
RECURSIVE validateFieldsStopAtFirst(_, _, _)
validateFieldsStopAtFirst(data, fields, i) ==
    IF i > Len(fields) THEN <<>>
    ELSE LET errs == validateField(data, fields[i]) IN
         IF errs # <<>> THEN errs
         ELSE validateFieldsStopAtFirst(data, fields, i + 1)

RECURSIVE validateFields(_, _, _)
\* the loop of validateStruct over the fields from i on
validateFields(data, fields, i) ==
    IF i > Len(fields) THEN <<>>
    ELSE validateField(data, fields[i]) \o validateFields(data, fields, i + 1)

\* validateStruct refusing the keys no field is named by
validateStructStrict(data, schemaType) ==
    IF schemaType.kind # "struct" THEN <<>>
    ELSE validateFields(data, schemaType.fields, 1)
         \o (IF \E key \in DOMAIN data :
                   \A i \in DOMAIN schemaType.fields :
                      getJSONFieldName(schemaType.fields[i]) # key
              THEN << ValidationError(<<"b","o","d","y">>, "unknown field", "unknown") >>
              ELSE <<>>)

\* validateStruct: a map against a struct type
validateStruct(data, schemaType) ==
    IF schemaType.kind # "struct" THEN <<>>
    ELSE validateFields(data, schemaType.fields, 1)

-----------------------------------------------------------------------------
(* Request bodies *)

NilSchema == [kind |-> "nil"]
NoReq == [parse |-> "none"]
\* a body that is no JSON text
InvalidJSON == [parse |-> "invalid"]
\* a body that is the JSON text of doc
JSONBody(doc) == [parse |-> "ok", doc |-> doc]

\* BindBody taking a body that is no JSON for an empty object
BindBodyLenient(r) ==
    IF r.parse = "ok" /\ r.doc.k = "map" THEN [err |-> FALSE, body |-> r.doc.m]
    ELSE IF r.parse = "ok" /\ r.doc.k # "nil" THEN [err |-> TRUE, body |-> <<>>]
    ELSE [err |-> FALSE, body |-> <<>>]

\* c.Bind().Body(&body) with body a map[string]interface{}, for a request of
\* content type application/json: only a JSON object or null decodes
BindBody(r) ==
    IF r.parse = "ok" /\ r.doc.k = "map" THEN [err |-> FALSE, body |-> r.doc.m]
    ELSE IF r.parse = "ok" /\ r.doc.k = "nil" THEN [err |-> FALSE, body |-> <<>>]
    ELSE [err |-> TRUE, body |-> <<>>]

ParseError == ValidationError(<<"b","o","d","y">>, "bind error", "parse_error")

\* ValidateRequestBody binding the body before it looks at the schema
ValidateRequestBodyBindFirst(r, sch) ==
    LET bound == BindBody(r) IN
    IF bound.err THEN << ParseError >>
    ELSE IF sch = NilSchema THEN <<>>
    ELSE LET schemaType == IF sch.kind = "ptr" THEN sch.elem ELSE sch IN
         IF schemaType.kind = "slice" THEN <<>>
         ELSE validateStruct(bound.body, schemaType)

\* ValidateRequestBody: the Errors of the returned response, <<>> for nil
ValidateRequestBody(r, sch) ==
    IF sch = NilSchema THEN <<>>
    ELSE LET bound == BindBody(r) IN
         IF bound.err
         THEN << ParseError >>
         ELSE LET schemaType == IF sch.kind = "ptr" THEN sch.elem ELSE sch IN
              IF schemaType.kind = "slice" THEN <<>>
              ELSE validateStruct(bound.body, schemaType)

-----------------------------------------------------------------------------
(* Example generator *)

\* generateStringExample: the first pattern the lower-cased name contains
generateStringExample(fieldName) ==
    CASE Contains(fieldName, <<"e","m","a","i","l">>) -> "user@example.com"
      [] Contains(fieldName, <<"p","a","s","s","w","o","r","d">>) -> "securePassword123"
      [] Contains(fieldName, <<"u","s","e","r","n","a","m","e">>) \/ Contains(fieldName, <<"u","s","e","r","_","n","a","m","e">>) -> "john_doe"
      [] Contains(fieldName, <<"f","i","r","s","t","n","a","m","e">>) \/ Contains(fieldName, <<"f","i","r","s","t","_","n","a","m","e">>) -> "John"
      [] Contains(fieldName, <<"l","a","s","t","n","a","m","e">>) \/ Contains(fieldName, <<"l","a","s","t","_","n","a","m","e">>) -> "Doe"
      [] Contains(fieldName, <<"n","a","m","e">>) -> "John Doe"
      [] Contains(fieldName, <<"p","h","o","n","e">>) -> "+1-555-0123"
      [] Contains(fieldName, <<"a","d","d","r","e","s","s">>) -> "123 Main Street, City, Country"
      [] Contains(fieldName, <<"u","r","l">>) \/ Contains(fieldName, <<"l","i","n","k">>) -> "https://example.com"
      [] Contains(fieldName, <<"i","d">>) -> "12345"
      [] Contains(fieldName, <<"t","o","k","e","n">>) -> "eyJhbGciOiJIUzI1NiIsInR5cCI6IkpXVCJ9..."
      [] Contains(fieldName, <<"d","e","s","c","r","i","p","t","i","o","n">>) -> "This is a sample description"
      [] Contains(fieldName, <<"t","i","t","l","e">>) -> "Sample Title"
      [] Contains(fieldName, <<"s","t","a","t","u","s">>) -> "active"
      [] Contains(fieldName, <<"t","y","p","e">>) -> "default"
      [] OTHER -> "example_value"

\* generateIntExample
generateIntExample(fieldName) ==
    CASE Contains(fieldName, <<"a","g","e">>) -> 25
      [] Contains(fieldName, <<"c","o","u","n","t">>) \/ Contains(fieldName, <<"t","o","t","a","l">>) -> 10
      [] Contains(fieldName, <<"i","d">>) -> 12345
      [] Contains(fieldName, <<"p","o","r","t">>) -> 8080
      [] Contains(fieldName, <<"y","e","a","r">>) -> 2024
      [] Contains(fieldName, <<"m","o","n","t","h">>) -> 6
      [] Contains(fieldName, <<"d","a","y">>) -> 15
      [] OTHER -> 1

\* generateUintExample
generateUintExample(fieldName) ==
    LET intVal == generateIntExample(fieldName)
    IN  IF intVal < 0 THEN 0 ELSE intVal

\* generateFloatExample
generateFloatExample(fieldName) ==
    CASE Contains(fieldName, <<"p","r","i","c","e">>) \/ Contains(fieldName, <<"c","o","s","t">>) -> Fin(1, 99, 9900)
      [] Contains(fieldName, <<"r","a","t","e">>) -> Fin(1, 0, 1500)
      [] Contains(fieldName, <<"p","e","r","c","e","n","t","a","g","e">>) -> Fin(1, 75, 5000)
      [] Contains(fieldName, <<"l","a","t","i","t","u","d","e">>) -> Fin(1, 40, 7128)
      [] Contains(fieldName, <<"l","o","n","g","i","t","u","d","e">>) -> Fin(-1, 74, 60)
      [] Contains(fieldName, <<"w","e","i","g","h","t">>) -> Fin(1, 70, 5000)
      [] Contains(fieldName, <<"h","e","i","g","h","t">>) -> Fin(1, 175, 0)
      [] OTHER -> Fin(1, 1, 0)

\* generateBoolExample
generateBoolExample(fieldName) ==
    CASE Contains(fieldName, <<"a","c","t","i","v","e">>) \/ Contains(fieldName, <<"e","n","a","b","l","e","d">>) -> TRUE
      [] Contains(fieldName, <<"d","e","l","e","t","e","d">>) \/ Contains(fieldName, <<"d","i","s","a","b","l","e","d">>) -> FALSE
      [] Contains(fieldName, <<"v","e","r","i","f","i","e","d">>) \/ Contains(fieldName, <<"c","o","n","f","i","r","m","e","d">>) -> TRUE
      [] OTHER -> FALSE

\* time.Now().Format(time.RFC3339): some timestamp text
NowRFC3339 == "2006-01-02T15:04:05Z"

\* which fields generateJSONFromType gives a key
generatorIncludes(field) ==
    IsExported(field) /\ getJSONFieldName(field) # <<"-">>

RECURSIVE generateJSONFromType(_)
RECURSIVE generateExampleValue(_, _)
RECURSIVE generateFromFields(_, _)

\* the loop of generateJSONFromType over the fields from i on: a later
\* field of the same wire name overwrites an earlier one
generateFromFields(fields, i) ==
    IF i > Len(fields) THEN <<>>
    ELSE LET field == fields[i]
             rest == generateFromFields(fields, i + 1)
         IN  IF ~generatorIncludes(field) THEN rest
             ELSE rest @@ (getJSONFieldName(field) :>
                              generateExampleValue(field.Type, field.Name))

\* generateJSONFromType: the example of a type, as Go values
generateJSONFromType(t) ==
    IF t.kind = "ptr" THEN generateJSONFromType(t.elem)
    ELSE IF t.kind = "slice" THEN SliceValue(<< generateJSONFromType(t.elem) >>)
    ELSE IF t.kind = "struct" THEN MapValue(generateFromFields(t.fields, 1))
    ELSE generateExampleValue(t, <<>>)

\* generateExampleValue: the example of a field
generateExampleValue(t, fieldName) ==
    IF t.kind = "ptr" THEN generateExampleValue(t.elem, fieldName)
    ELSE IF t.kind = "slice"
         THEN SliceValue(<< generateExampleValue(t.elem, fieldName) >>)
    ELSE IF t.kind = "struct"
         THEN IF t = TimeType THEN StringValue(NowRFC3339)
              ELSE generateJSONFromType(t)
    ELSE LET lowerFieldName == ToLower(fieldName) IN
         CASE t.kind = "string" -> StringValue(generateStringExample(lowerFieldName))
           [] t.kind \in SignedKinds -> IntValue(generateIntExample(lowerFieldName))
           [] t.kind \in UnsignedKinds -> UintValue(generateUintExample(lowerFieldName))
           [] t.kind \in FloatKinds -> Float64Value(generateFloatExample(lowerFieldName))
           [] t.kind = "bool" -> BoolValue(generateBoolExample(lowerFieldName))
           [] OTHER -> NilValue

\* json.MarshalIndent followed by a JSON decode into interface{}: every
\* number is a float64 afterwards, nil is null
RECURSIVE jsonRoundTrip(_)
jsonRoundTrip(v) ==
    CASE v.k \in {"int", "uint"} ->
            Float64Value(Fin(IF v.n < 0 THEN -1 ELSE 1, IF v.n < 0 THEN -v.n ELSE v.n, 0))
      [] v.k = "slice" -> SliceValue([i \in DOMAIN v.e |-> jsonRoundTrip(v.e[i])])
      [] v.k = "map" -> MapValue([key \in DOMAIN v.m |-> jsonRoundTrip(v.m[key])])
      [] OTHER -> v

\* generateJSONTemplate: the JSON text returned, as the document it encodes
generateJSONTemplate(sch) ==
    IF sch = NilSchema THEN JSONBody(MapValue(<<>>))
    ELSE JSONBody(jsonRoundTrip(generateJSONFromType(sch)))

-----------------------------------------------------------------------------
(* Schema emitter *)

NoSchema == [nil |-> TRUE]

\* &JSONSchema{}: every field at its zero value
JSONSchema ==
    [Type |-> "", Format |-> "", Title |-> "", Ref |-> "", Nullable |-> FALSE,
     Minimum |-> "none", Items |-> NoSchema, Properties |-> <<>>, Required |-> <<>>]

\* goTypeToJSONSchema
goTypeToJSONSchema(t) ==
    CASE t.kind = "string" -> [JSONSchema EXCEPT !.Type = "string"]
      [] t.kind \in {"int", "int8", "int16", "int32"} ->
            [JSONSchema EXCEPT !.Type = "integer", !.Format = "int32"]
      [] t.kind = "int64" -> [JSONSchema EXCEPT !.Type = "integer", !.Format = "int64"]
      [] t.kind \in {"uint", "uint8", "uint16", "uint32"} ->
            [JSONSchema EXCEPT !.Type = "integer", !.Format = "int32", !.Minimum = "0"]
      [] t.kind = "uint64" ->
            [JSONSchema EXCEPT !.Type = "integer", !.Format = "int64", !.Minimum = "0"]
      [] t.kind = "float32" -> [JSONSchema EXCEPT !.Type = "number", !.Format = "float"]
      [] t.kind = "float64" -> [JSONSchema EXCEPT !.Type = "number", !.Format = "double"]
      [] t.kind = "bool" -> [JSONSchema EXCEPT !.Type = "boolean"]
      [] OTHER -> JSONSchema

\* emitterIncludes without the skip of fields tagged "-"
emitterIncludesDash(field) == IsExported(field)

\* which fields structToJSONSchema gives a property
emitterIncludes(field) ==
    IsExported(field) /\ getJSONFieldName(field) # <<"-">>

\* structToJSONSchema's requiredness rule
emitterIsRequired(field) ==
    LET isOmitEmpty == Contains(field.Tag, omitempty)
        isPointer == field.Type.kind = "ptr"
    IN  ~isOmitEmpty /\ ~isPointer

RECURSIVE structToJSONSchema(_, _, _)
RECURSIVE fieldToJSONSchema(_, _, _)
RECURSIVE emitFields(_, _, _, _)

\* the loop of structToJSONSchema over the fields from i on, onto acc
emitFields(fields, i, componentSchemas, acc) ==
    IF i > Len(fields) THEN acc
    ELSE LET field == fields[i] IN
         IF ~emitterIncludes(field)
         THEN emitFields(fields, i + 1, componentSchemas, acc)
         ELSE LET fieldName == getJSONFieldName(field)
                  fieldSchema == fieldToJSONSchema(field.Type, field.Name, componentSchemas)
                  props == (fieldName :> fieldSchema) @@ acc.Properties
                  required == IF emitterIsRequired(field)
                              THEN Append(acc.Required, fieldName)
                              ELSE acc.Required
              IN  emitFields(fields, i + 1, componentSchemas,
                             [acc EXCEPT !.Properties = props, !.Required = required])

\* structToJSONSchema
structToJSONSchema(typ, name, componentSchemas) ==
    emitFields(typ.fields, 1, componentSchemas,
               [JSONSchema EXCEPT !.Type = "object", !.Title = name])

\* fieldToJSONSchema
fieldToJSONSchema(t, fieldName, componentSchemas) ==
    IF t.kind = "ptr"
    THEN [fieldToJSONSchema(t.elem, fieldName, componentSchemas) EXCEPT !.Nullable = TRUE]
    ELSE IF t.kind = "slice"
         THEN [JSONSchema EXCEPT !.Type = "array",
                  !.Items = fieldToJSONSchema(t.elem, fieldName, componentSchemas)]
    ELSE IF t.kind = "struct"
         THEN IF t = TimeType
              THEN [JSONSchema EXCEPT !.Type = "string", !.Format = "date-time"]
              ELSE IF t.name # ""
                   THEN [JSONSchema EXCEPT !.Ref = "#/components/schemas/" \o t.name]
                   ELSE structToJSONSchema(t, "", componentSchemas)
    ELSE goTypeToJSONSchema(t)

\* the struct type a field or input is about: pointer, then slice, then
\* pointer again are taken off
elemStruct(t) ==
    LET t1 == IF t.kind = "ptr" THEN t.elem ELSE t
        t2 == IF t1.kind = "slice" THEN t1.elem ELSE t1
    IN  IF t1.kind = "slice" /\ t2.kind = "ptr" THEN t2.elem ELSE t2

RECURSIVE collectComponentSchemas(_, _)
RECURSIVE collectFromFields(_, _, _)

\* the loop of collectComponentSchemas over the fields from i on
collectFromFields(fields, i, schemas) ==
    IF i > Len(fields) THEN schemas
    ELSE LET fieldType == elemStruct(fields[i].Type) IN
         IF fieldType.kind = "struct" /\ fieldType.name # "" /\ fieldType # TimeType
         THEN collectFromFields(fields, i + 1,
                                collectComponentSchemas(fieldType, schemas))
         ELSE collectFromFields(fields, i + 1, schemas)

\* collectComponentSchemas: schemas with the named structs under typ added
collectComponentSchemas(typ0, schemas) ==
    LET typ == elemStruct(typ0) IN
    IF typ.kind # "struct" \/ typ.name = "" THEN schemas
    ELSE IF typ.name \in DOMAIN schemas THEN schemas
    ELSE IF typ = TimeType THEN schemas
    ELSE LET nested == collectFromFields(typ.fields, 1, schemas)
         IN  (typ.name :> structToJSONSchema(typ, typ.name, nested)) @@ nested

\* generateJSONSchema: the main schema and the component schemas
generateJSONSchema(name, sch) ==
    IF sch = NilSchema
    THEN [mainSchema |-> [JSONSchema EXCEPT !.Type = "object"],
          componentSchemas |-> <<>>]
    ELSE LET typ == elemStruct(sch)
             t1 == IF sch.kind = "ptr" THEN sch.elem ELSE sch
             isArray == t1.kind = "slice"
         IN  IF typ.kind # "struct"
             THEN [mainSchema |-> goTypeToJSONSchema(typ), componentSchemas |-> <<>>]
             ELSE LET componentSchemas == collectComponentSchemas(typ, <<>>)
                      mainSchema == structToJSONSchema(typ, name, componentSchemas)
                  IN  IF isArray
                      THEN [mainSchema |-> [JSONSchema EXCEPT !.Type = "array",
                                                              !.Items = mainSchema],
                            componentSchemas |-> componentSchemas]
                      ELSE [mainSchema |-> mainSchema,
                            componentSchemas |-> componentSchemas]

-----------------------------------------------------------------------------
(* TypeScript interfaces *)

\* the value of typescript before generateTypeScriptSchema has run
NoTypeScript == <<>>

RECURSIVE goTypeToTsType(_)

\* goTypeToTsType: the TypeScript type written for a Go type
goTypeToTsType(t) ==
    IF t.kind = "string" THEN "string"
    ELSE IF t.kind \in SignedKinds \cup UnsignedKinds THEN "number"
    ELSE IF t.kind \in FloatKinds THEN "number"
    ELSE IF t.kind = "bool" THEN "boolean"
    ELSE IF t.kind = "slice" THEN goTypeToTsType(t.elem) \o "[]"
    ELSE IF t.kind = "ptr" THEN goTypeToTsType(t.elem)
    ELSE IF t.kind = "struct"
         THEN IF t.name = "" THEN "any" ELSE t.name
    ELSE "any"

\* the name generateStructSchema writes for a field
tsFieldName(field) ==
    LET jsonTag == field.Tag IN
    IF jsonTag # <<>> /\ jsonTag # <<"-">>
    THEN BeforeComma(jsonTag)
    ELSE ToLower(SubSeq(field.Name, 1, 1)) \o SubSeq(field.Name, 2, Len(field.Name))

\* generateStructSchema: one line "  name: type;" for every field of typ, in
\* declaration order
generateStructSchema(typ) ==
    [i \in DOMAIN typ.fields |->
        [name |-> tsFieldName(typ.fields[i]),
         type |-> goTypeToTsType(typ.fields[i].Type)]]

\* one "export interface name { ... }" block
Interface(name, typ) == [name |-> name, lines |-> generateStructSchema(typ)]

RECURSIVE generateAllStructs(_, _)
RECURSIVE generateStructsFrom(_, _, _)

\* the loop of generateAllStructs over the fields from i on; out holds the
\* text written so far and the names seen so far
generateStructsFrom(fields, i, out) ==
    IF i > Len(fields) THEN out
    ELSE LET t1 == IF fields[i].Type.kind = "ptr" THEN fields[i].Type.elem
                   ELSE fields[i].Type
             fieldType == IF t1.kind = "slice" THEN t1.elem ELSE t1
         IN  IF /\ fieldType.kind = "struct"
                /\ fieldType.name \notin out.seenTypes
                /\ fieldType.name # ""
             THEN LET nested == generateAllStructs(fieldType,
                                    [out EXCEPT !.seenTypes = @ \cup {fieldType.name}])
                  IN  generateStructsFrom(fields, i + 1,
                          [nested EXCEPT !.ts = Append(@, Interface(fieldType.name, fieldType))])
             ELSE generateStructsFrom(fields, i + 1, out)

\* generateAllStructs: the interfaces of the named structs under typ
generateAllStructs(typ, out) ==
    IF typ.kind # "struct" THEN out
    ELSE generateStructsFrom(typ.fields, 1, out)

\* generateTypeScriptSchema: the interfaces in the order they are written, the
\* main one last; isArray says that "[]" follows it. The empty string is the
\* text without any interface
generateTypeScriptSchema(name, sch) ==
    IF sch = NilSchema THEN [ts |-> <<>>, isArray |-> FALSE]
    ELSE LET t1 == IF sch.kind = "ptr" THEN sch.elem ELSE sch
             isArray == t1.kind = "slice"
             typ == IF isArray THEN t1.elem ELSE t1
         IN  IF typ.kind # "struct" THEN [ts |-> <<>>, isArray |-> FALSE]
             ELSE LET nested == generateAllStructs(typ, [ts |-> <<>>, seenTypes |-> {}])
                  IN  [ts |-> Append(nested.ts, Interface(name, typ)),
                       isArray |-> isArray]

-----------------------------------------------------------------------------
(* Struct types of the tests, and the fields shapes are drawn from *)

\* TestUser (validation tests)
TestUser ==
    StructType("notelink", "TestUser",
        << Field(<<"N","a","m","e">>, "", <<"n","a","m","e">>, Prim("string")),
           Field(<<"E","m","a","i","l">>, "", <<"e","m","a","i","l">>, Prim("string")),
           Field(<<"A","g","e">>, "", <<"a","g","e">>, Prim("int")) >>)

\* TestUserWithOptional
TestUserWithOptional ==
    StructType("notelink", "TestUserWithOptional",
        << Field(<<"A","g","e">>, "", <<"a","g","e">>, PtrTo(Prim("int"))),
           Field(<<"N","a","m","e">>, "", <<"n","a","m","e">>, Prim("string")),
           Field(<<"E","m","a","i","l">>, "", <<"e","m","a","i","l",",","o","m","i","t","e","m","p","t","y">>, Prim("string")),
           Field(<<"I","s","A","c","t","i","v","e">>, "", <<"i","s","_","a","c","t","i","v","e">>, Prim("bool")) >>)

\* TestNestedStruct
TestNestedStruct ==
    StructType("notelink", "TestNestedStruct",
        << Field(<<"U","s","e","r">>, "", <<"u","s","e","r">>, TestUser),
           Field(<<"T","a","g","s">>, "", <<"t","a","g","s">>, SliceOf(Prim("string"))),
           Field(<<"E","n","a","b","l","e","d">>, "", <<"e","n","a","b","l","e","d">>, Prim("bool")) >>)

\* TestArrayOfStructs
TestArrayOfStructs ==
    StructType("notelink", "TestArrayOfStructs",
        << Field(<<"U","s","e","r","s">>, "", <<"u","s","e","r","s">>, SliceOf(TestUser)) >>)

\* TestDeepNested: three anonymous structs, one inside the other
TestDeepNested ==
    StructType("notelink", "TestDeepNested",
        << Field(<<"L","e","v","e","l","1">>, "", <<"l","e","v","e","l","1">>, StructType("", "",
            << Field(<<"L","e","v","e","l","2">>, "", <<"l","e","v","e","l","2">>, StructType("", "",
                << Field(<<"L","e","v","e","l","3">>, "", <<"l","e","v","e","l","3">>, StructType("", "",
                    << Field(<<"V","a","l","u","e">>, "", <<"v","a","l","u","e">>, Prim("string")) >>)) >>)) >>)) >>)

TestShapes ==
    {TestUser, TestUserWithOptional, TestNestedStruct, TestArrayOfStructs, TestDeepNested}

\* the fields the validated shapes are built from: the ways a field is
\* named, skipped or optional, over the scalar kinds
ValidatePool ==
    { Field(<<"N","a","m","e">>, "", <<"n","a","m","e">>, Prim("string")),
      Field(<<"A","g","e">>, "", <<"a","g","e">>, Prim("int")),
      Field(<<"E","m","a","i","l">>, "", <<"e","m","a","i","l",",","o","m","i","t","e","m","p","t","y">>, Prim("string")),
      Field(<<"L","e","v","e","l">>, "", <<"l","e","v","e","l">>, PtrTo(Prim("int"))),
      Field(<<"I","s","A","c","t","i","v","e">>, "", <<>>, Prim("bool")),
      Field(<<"H","e","i","g","h","t">>, "", <<"n","a","m","e">>, Prim("float64")),
      Field(<<"s","e","c","r","e","t">>, "notelink", <<>>, Prim("string")),
      Field(<<"I","n","t","e","r","n","a","l">>, "", <<"-">>, Prim("string")) }

\* struct types of at most n fields over pool; Go field names are unique
\* within a struct
RECURSIVE FieldSeqs(_, _)
FieldSeqs(pool, n) ==
    IF n = 0 THEN { <<>> }
    ELSE LET shorter == FieldSeqs(pool, n - 1) IN
         shorter \cup
         { Append(fs, f) : fs \in { s \in shorter : Len(s) = n - 1 },
                           f \in pool } 

UniqueNames(fs) == \A i, j \in DOMAIN fs : fs[i].Name = fs[j].Name => i = j

PoolShapes(pool) ==
    { StructType("notelink", "T", fs) :
        fs \in { s \in FieldSeqs(pool, MaxFields) : UniqueNames(s) } }

\* the types a field is declared with, one of every branch of the type switch
FieldTypes ==
    { Prim(k) : k \in {"string", "bool", "interface"} \cup SignedKinds
                      \cup UnsignedKinds \cup FloatKinds }
    \cup { SliceOf(Prim("string")), ArrayOf(Prim("int")), MapOf(Prim("string")),
           TestUser, TimeType, PtrTo(Prim("string")), PtrTo(Prim("uint")),
           PtrTo(TestUser), SliceOf(TestUser) }

\* one required field of every type
KindShapes ==
    { StructType("notelink", "K", << Field(<<"V">>, "", <<"v">>, t) >>) : t \in FieldTypes }

\* what ValidateRequestBody is given as schema
ValidateSchemas ==
    {NilSchema} \cup PoolShapes(ValidatePool) \cup KindShapes \cup TestShapes
    \cup { PtrTo(t) : t \in TestShapes }
    \cup { SliceOf(t) : t \in TestShapes }
    \cup { PtrTo(SliceOf(TestUser)), Prim("string") }

-----------------------------------------------------------------------------
(* Request bodies sent to a validated route *)

John == StringValue("John")
Num(s, i, f) == Float64Value(Fin(s, i, f))

\* {"name":"John","email":"john@example.com"}: a TestUser without its age
UserNoAge == MapValue((<<"n","a","m","e">> :> John) @@ (<<"e","m","a","i","l">> :> StringValue("john@example.com")))
\* a complete TestUser, and one with an ill-typed age
UserFull == MapValue(UserNoAge.m @@ (<<"a","g","e">> :> Num(1, 25, 0)))
UserBadAge == MapValue(UserNoAge.m @@ (<<"a","g","e">> :> StringValue("thirty")))

\* the JSON values a key of a small payload takes
BaseValues ==
    { NilValue, John, Num(1, 25, 0), BoolValue(TRUE),
      SliceValue(<< StringValue("go") >>), UserNoAge }

\* every shape of JSON number, for payloads of one key
NumberValues ==
    { Num(1, 0, 0), Num(1, 25, 0), Num(-1, 5, 0), Num(1, 1, 5000), Num(-1, 1, 5000),
      Float64Value(Two63(1)), Float64Value(Two63(-1)),
      Float64Value(Huge(1)), Float64Value(Huge(-1)) }

\* the keys a payload for a struct type uses: one per field
PayloadKeys(t) ==
    IF t.kind = "struct"
    THEN { getJSONFieldName(t.fields[i]) : i \in DOMAIN t.fields }
    ELSE {}

PayloadValues(t) ==
    IF t.kind = "struct" /\ Len(t.fields) <= 1
    THEN BaseValues \cup NumberValues
    ELSE BaseValues

\* a key no field of the shapes is named by
ExtraKey == <<"e","x","t","r","a">>

\* the JSON objects sent for a struct type: any value under any of its keys,
\* with or without an unknown key
Payloads(t) ==
    { MapValue(m @@ x) :
        m \in UNION { [K -> PayloadValues(t)] : K \in SUBSET PayloadKeys(t) },
        x \in { <<>>, ExtraKey :> John } }

\* the bodies of the validation tests for a test struct
TestBodies(t) ==
    CASE t = TestNestedStruct ->
            { MapValue((<<"u","s","e","r">> :> u) @@ (<<"t","a","g","s">> :> g) @@ (<<"e","n","a","b","l","e","d">> :> BoolValue(TRUE))) :
                u \in {UserFull, UserNoAge, UserBadAge},
                g \in { SliceValue(<< StringValue("go"), StringValue("api") >>),
                        SliceValue(<< Num(1, 123, 0), Num(1, 456, 0) >>) } }
      [] t = TestArrayOfStructs ->
            { MapValue(<<"u","s","e","r","s">> :> SliceValue(<< UserFull, u >>)) :
                u \in {UserFull, UserNoAge, UserBadAge} }
      [] t = TestDeepNested ->
            { MapValue(<<"l","e","v","e","l","1">> :> MapValue(<<"l","e","v","e","l","2">> :> MapValue(<<"l","e","v","e","l","3">> :> v))) :
                v \in { MapValue(<<"v","a","l","u","e">> :> StringValue("test")), MapValue(<<>>) } }
      [] OTHER -> {}

Unwrapped(sch) ==
    LET t == IF sch.kind = "ptr" THEN sch.elem ELSE sch
    IN  IF t.kind = "slice" THEN t.elem ELSE t

\* the bodies a client sends to a route whose schema is sch
Bodies(sch) ==
    { InvalidJSON, JSONBody(NilValue), JSONBody(John),
      JSONBody(SliceValue(<< UserFull >>)), JSONBody(SliceValue(<<>>)) }
    \cup { JSONBody(p) : p \in Payloads(Unwrapped(sch)) }
    \cup { JSONBody(p) : p \in TestBodies(Unwrapped(sch)) }

-----------------------------------------------------------------------------
(* Request validation *)

NoSchemaOut == [none |-> TRUE]

\* no route, no request, no call and no walk yet
NoParams == <<>>
NoCtx == [none |-> TRUE]
NoApiNote == [none |-> TRUE]
NoResp == [none |-> TRUE]
NoWalk == [none |-> TRUE]
NoProcs == <<>>

WebIdle ==
    /\ params = NoParams
    /\ ctx = NoCtx
    /\ an = NoApiNote
    /\ resp = NoResp
    /\ walk = NoWalk
    /\ procs = NoProcs

Init ==
    /\ arch \in Archs
    /\ schema \in ValidateSchemas
    /\ req = NoReq
    /\ result = <<>>
    /\ pc = "idle"
    /\ template = NoReq
    /\ jsonSchema = NoSchemaOut
    /\ typescript = NoTypeScript
    /\ WebIdle

\* a request arrives and the route's validation runs ValidateRequestBody on it
HandleRequest ==
    /\ pc = "idle"
    /\ \E r \in Bodies(schema) :
        /\ req' = r
        /\ result' = ValidateRequestBody(r, schema)
    /\ pc' = "validated"
    /\ UNCHANGED <<arch, schema, template, jsonSchema, typescript>>
    /\ UNCHANGED web

Next == HandleRequest

Spec == Init /\ [][Next]_vars

-----------------------------------------------------------------------------
(* Generation: schema, example, and the example sent back for validation *)

\* the fields the generated shapes are built from: every kind of field the
\* walker tells apart, and every form of tag
GeneratePool ==
    ValidatePool \cup
    { Field(<<"T","a","g","s">>, "", <<"t","a","g","s">>, SliceOf(Prim("string"))),
      Field(<<"U","s","e","r">>, "", <<"u","s","e","r">>, TestUser),
      Field(<<"F","r","i","e","n","d">>, "", <<"f","r","i","e","n","d",",","o","m","i","t","e","m","p","t","y">>, PtrTo(TestUser)),
      Field(<<"I","t","e","m","s">>, "", <<"i","t","e","m","s">>, SliceOf(TestUser)),
      Field(<<"C","r","e","a","t","e","d","A","t">>, "", <<"c","r","e","a","t","e","d","_","a","t">>, TimeType),
      Field(<<"M","e","t","a">>, "", <<"m","e","t","a">>, MapOf(Prim("string"))),
      Field(<<"A","n","y">>, "", <<"a","n","y">>, Prim("interface")),
      Field(<<"C","o","o","r","d","s">>, "", <<"c","o","o","r","d","s">>, ArrayOf(Prim("float64"))),
      Field(<<"U","s","e","r","I","D">>, "", <<>>, Prim("uint64")),
      Field(<<"P","r","i","c","e">>, "", <<"p","r","i","c","e">>, Prim("float32")),
      Field(<<"M","o","d","e">>, "", <<"o","m","i","t","e","m","p","t","y","_","m","o","d","e">>, Prim("string")),
      Field(<<"I","n","l","i","n","e">>, "", <<"i","n","l","i","n","e">>, StructType("", "",
          << Field(<<"V","a","l","u","e">>, "", <<"v","a","l","u","e">>, Prim("string")) >>)) }

\* shapes that put a named struct under an anonymous struct, a slice of
\* slices, a pointer to a pointer, a map, and a struct type without a name
NestedRefShapes ==
    { StructType("notelink", "Outer",
        << Field(<<"I","n","l","i","n","e">>, "", <<"i","n","l","i","n","e">>, StructType("", "",
            << Field(<<"U","s","e","r">>, "", <<"u","s","e","r">>, TestUser) >>)) >>),
      StructType("notelink", "Matrix",
        << Field(<<"R","o","w","s">>, "", <<"r","o","w","s">>, SliceOf(SliceOf(TestUser))) >>),
      StructType("notelink", "Indirect",
        << Field(<<"U","s","e","r">>, "", <<"u","s","e","r">>, PtrTo(PtrTo(TestUser))) >>),
      StructType("notelink", "Lookup",
        << Field(<<"U","s","e","r","s">>, "", <<"u","s","e","r","s">>, MapOf(TestUser)) >>),
      StructType("notelink", "Team",
        << Field(<<"L","e","a","d">>, "", <<"l","e","a","d">>, PtrTo(TestUser)),
           Field(<<"M","e","m","b","e","r","s">>, "", <<"m","e","m","b","e","r","s">>, SliceOf(PtrTo(TestUser))),
           Field(<<"N","e","s","t","e","d">>, "", <<"n","e","s","t","e","d">>, TestNestedStruct) >>),
      StructType("", "", << Field(<<"U","s","e","r">>, "", <<"u","s","e","r">>, TestUser) >>),
      SliceOf(StructType("", "", << Field(<<"U","s","e","r","s">>, "", <<"u","s","e","r","s">>, SliceOf(TestUser)) >>)) }

\* a struct whose wire names say something else than its Go field names
Contact ==
    StructType("notelink", "Contact",
        << Field(<<"M","a","i","l">>, "", <<"e","m","a","i","l">>, Prim("string")),
           Field(<<"Y","e","a","r","s">>, "", <<"a","g","e">>, Prim("int")),
           Field(<<"U","s","e","r","N","a","m","e">>, "", <<"u","s","e","r","_","n","a","m","e">>, Prim("string")) >>)

GenerateSchemas ==
    {NilSchema} \cup PoolShapes(GeneratePool) \cup TestShapes \cup NestedRefShapes
    \cup {Contact}
    \cup { PtrTo(t) : t \in TestShapes }
    \cup { SliceOf(t) : t \in TestShapes }
    \cup { PtrTo(SliceOf(TestUser)), SliceOf(PtrTo(TestUser)), Prim("string") }
    \cup { SliceOf(Prim("string")), SliceOf(Prim("int")), SliceOf(SliceOf(Prim("string"))) }

InitGenerate ==
    /\ arch \in Archs
    /\ schema \in GenerateSchemas
    /\ req = NoReq
    /\ result = <<>>
    /\ pc = "idle"
    /\ template = NoReq
    /\ jsonSchema = NoSchemaOut
    /\ typescript = NoTypeScript
    /\ WebIdle

\* the documentation layer asks for the schema of the type
GenerateSchema ==
    /\ jsonSchema = NoSchemaOut
    /\ jsonSchema' = generateJSONSchema("T", schema)
    /\ UNCHANGED <<arch, schema, req, result, pc, template, typescript>>
    /\ UNCHANGED web

\* the documentation page asks for the TypeScript interfaces of the type
GenerateTypeScript ==
    /\ typescript = NoTypeScript
    /\ typescript' = << generateTypeScriptSchema("T", schema) >>
    /\ UNCHANGED <<arch, schema, req, result, pc, template, jsonSchema>>
    /\ UNCHANGED web

\* the documentation layer asks for the example of the type
GenerateTemplate ==
    /\ template = NoReq
    /\ template' = generateJSONTemplate(schema)
    /\ UNCHANGED <<arch, schema, req, result, pc, jsonSchema, typescript>>
    /\ UNCHANGED web

\* a client sends the generated example as its request body
SendExample ==
    /\ pc = "idle"
    /\ template # NoReq
    /\ req' = template
    /\ result' = ValidateRequestBody(template, schema)
    /\ pc' = "example"
    /\ UNCHANGED <<arch, schema, template, jsonSchema, typescript>>
    /\ UNCHANGED web

\* a client sends the empty object {}
SendEmpty ==
    /\ pc = "idle"
    /\ req' = JSONBody(MapValue(<<>>))
    /\ result' = ValidateRequestBody(req', schema)
    /\ pc' = "empty"
    /\ UNCHANGED <<arch, schema, template, jsonSchema, typescript>>
    /\ UNCHANGED web

NextGenerate ==
    GenerateSchema \/ GenerateTypeScript \/ GenerateTemplate \/ SendExample \/ SendEmpty

SpecGenerate == InitGenerate /\ [][NextGenerate]_vars

-----------------------------------------------------------------------------
(* Vocabulary of the properties *)

\* the schema is a struct type, or a pointer to one
IsStructSchema(sch) ==
    sch.kind = "struct" \/ (sch.kind = "ptr" /\ sch.elem.kind = "struct")

\* the schema is a slice, or a pointer to one
IsSliceSchema(sch) ==
    sch.kind = "slice" \/ (sch.kind = "ptr" /\ sch.elem.kind = "slice")

StructOf(sch) == IF sch.kind = "ptr" THEN sch.elem ELSE sch

\* the body decodes into a map: a JSON object, or null
IsObjectBody(r) == r.parse = "ok" /\ r.doc.k \in {"map", "nil"}

DataOf(r) == IF r.doc.k = "map" THEN r.doc.m ELSE <<>>

\* the key is missing from the payload, or holds JSON null
Absent(data, key) == key \notin DOMAIN data \/ data[key] = NilValue

\* the errors of a list that name a field
ErrorsAt(errs, name) == { k \in DOMAIN errs : errs[k].Field = name }

\* the k-th smallest element of a set of indices
Nth(S, k) == CHOOSE i \in S : Cardinality({ j \in S : j <= i }) = k

-----------------------------------------------------------------------------
(* C4 *)

\* the field is in error for the payload: required and absent, or present
\* with a value of the wrong type
Offending(data, field) ==
    /\ validatorIncludes(field)
    /\ LET key == getJSONFieldName(field) IN
       \/ validatorIsRequired(field) /\ Absent(data, key)
       \/ ~Absent(data, key) /\ validateFieldType(data[key], field.Type, key) # NoError

\* C4: validateStruct does not stop at the first error: its result holds
\* exactly one error per offending top-level field and none for the other
\* fields, in the order the fields are declared.
C4_NoShortCircuit ==
    (pc = "validated" /\ IsStructSchema(schema) /\ IsObjectBody(req)) =>
        LET fields == StructOf(schema).fields
            data == DataOf(req)
            off == { i \in DOMAIN fields : Offending(data, fields[i]) }
        IN  /\ Len(result) = Cardinality(off)
            /\ \A k \in DOMAIN result :
                 LET field == fields[Nth(off, k)] IN
                 /\ result[k].Field = getJSONFieldName(field)
                 /\ result[k].Type =
                      IF Absent(data, getJSONFieldName(field)) THEN "required"
                      ELSE "type_error"

\* two fields of one payload are in error, the first of them missing
C4_Witness ==
    /\ pc = "validated" /\ IsStructSchema(schema) /\ IsObjectBody(req)
    /\ Len(result) = 2
    /\ result[1].Type = "required" /\ result[2].Type = "type_error"

-----------------------------------------------------------------------------
(* C5 *)

\* Scenario A: {name:string, age:int}, both required, and {"name":"John","extra":"John"}
ScenarioAShape ==
    StructType("notelink", "T",
        << Field(<<"N","a","m","e">>, "", <<"n","a","m","e">>, Prim("string")),
           Field(<<"A","g","e">>, "", <<"a","g","e">>, Prim("int")) >>)

ScenarioABody == JSONBody(MapValue((<<"n","a","m","e">> :> John) @@ (ExtraKey :> John)))

\* C5: a field the validator holds required (C2 is about which these are),
\* whose key is missing or null, gets exactly one error, of type required and
\* under its wire name, and no type error; Scenario A yields the one error
\* for age.
C5_RequiredMissing ==
    (pc = "validated" /\ IsStructSchema(schema) /\ IsObjectBody(req)) =>
        LET fields == StructOf(schema).fields
            data == DataOf(req)
            missing(name) ==
                { i \in DOMAIN fields :
                    /\ validatorIncludes(fields[i])
                    /\ validatorIsRequired(fields[i])
                    /\ getJSONFieldName(fields[i]) = name }
        IN  /\ \A i \in DOMAIN fields :
                 LET name == getJSONFieldName(fields[i]) IN
                 (i \in missing(name) /\ Absent(data, name)) =>
                    /\ Cardinality(ErrorsAt(result, name)) = Cardinality(missing(name))
                    /\ \A k \in ErrorsAt(result, name) : result[k].Type = "required"
            /\ (schema = ScenarioAShape /\ req = ScenarioABody) =>
                 result = << ValidationError(<<"a","g","e">>, "is missing", "required") >>

\* a required field holds null in the payload and is reported missing
C5_Witness ==
    /\ pc = "validated" /\ IsStructSchema(schema) /\ IsObjectBody(req)
    /\ \E i \in DOMAIN StructOf(schema).fields :
         LET field == StructOf(schema).fields[i]
             name == getJSONFieldName(field)
         IN  /\ validatorIncludes(field) /\ validatorIsRequired(field)
             /\ name \in DOMAIN DataOf(req) /\ DataOf(req)[name] = NilValue
             /\ ErrorsAt(result, name) # {}

\* Scenario A has run
C5_ScenarioAWitness ==
    pc = "validated" /\ schema = ScenarioAShape /\ req = ScenarioABody

-----------------------------------------------------------------------------
(* C6 *)

IntegerKinds == SignedKinds \cup UnsignedKinds

\* the kind a field's value is checked against
CheckedKind(field) ==
    IF field.Type.kind = "ptr" THEN field.Type.elem.kind ELSE field.Type.kind

\* C6, as claimed: a present, non-null value of an integer field is a type
\* error exactly when it is no JSON number or has a fractional part or, for an
\* unsigned field, is negative; every other number is accepted.
C6_IntegerCompatibility ==
    (pc = "validated" /\ IsStructSchema(schema) /\ IsObjectBody(req)) =>
        LET fields == StructOf(schema).fields
            data == DataOf(req)
        IN  \A i \in DOMAIN fields :
              LET field == fields[i]
                  name == getJSONFieldName(field)
              IN  ( /\ validatorIncludes(field)
                    /\ CheckedKind(field) \in IntegerKinds
                    /\ ~Absent(data, name)
                    /\ \A j \in DOMAIN fields :
                         getJSONFieldName(fields[j]) = name => j = i ) =>
                  LET value == data[name]
                      rejected == \E k \in ErrorsAt(result, name) :
                                     result[k].Type = "type_error"
                  IN  rejected <=>
                        \/ value.k # "float64"
                        \/ ~IsIntegral(value.x)
                        \/ CheckedKind(field) \in UnsignedKinds /\ IsNegative(value.x)

-----------------------------------------------------------------------------
(* C7 *)

\* the bodies of TestValidateNestedStruct and TestValidateArrayOfStructs
\* that hold a fault below the top level, with the path the tests expect
NestedBody(user, tags) ==
    JSONBody(MapValue((<<"u","s","e","r">> :> user) @@ (<<"t","a","g","s">> :> tags)
                      @@ (<<"e","n","a","b","l","e","d">> :> BoolValue(TRUE))))

GoodTags == SliceValue(<< StringValue("go"), StringValue("api") >>)

NestedFaults ==
    { [schema |-> TestNestedStruct, body |-> NestedBody(UserNoAge, GoodTags),
       path |-> <<"u","s","e","r",".","a","g","e">>],
      [schema |-> TestNestedStruct, body |-> NestedBody(UserBadAge, GoodTags),
       path |-> <<"u","s","e","r",".","a","g","e">>],
      [schema |-> TestNestedStruct,
       body |-> NestedBody(UserFull, SliceValue(<< Num(1, 123, 0), Num(1, 456, 0) >>)),
       path |-> <<"t","a","g","s","[","0","]">>],
      [schema |-> TestDeepNested,
       body |-> JSONBody(MapValue(<<"l","e","v","e","l","1">> :> MapValue(<<"l","e","v","e","l","2">> :>
                    MapValue(<<"l","e","v","e","l","3">> :> MapValue(<<>>))))),
       path |-> <<"l","e","v","e","l","1",".","l","e","v","e","l","2",".","l","e","v","e","l","3",".","v","a","l","u","e">>],
      [schema |-> TestArrayOfStructs,
       body |-> JSONBody(MapValue(<<"u","s","e","r","s">> :> SliceValue(<< UserFull, UserNoAge >>))),
       path |-> <<"u","s","e","r","s","[","1","]",".","a","g","e">>],
      [schema |-> TestArrayOfStructs,
       body |-> JSONBody(MapValue(<<"u","s","e","r","s">> :> SliceValue(<< UserFull, UserBadAge >>))),
       path |-> <<"u","s","e","r","s","[","1","]",".","a","g","e">>] }

\* C7, as claimed: a body with a missing or ill-typed field inside a nested
\* struct or an array element is rejected, and the first error names the
\* dotted and bracketed path to it.
C7_RecursiveValidation ==
    \A c \in NestedFaults :
        (pc = "validated" /\ schema = c.schema /\ req = c.body) =>
            (result # <<>> /\ result[1].Field = c.path)

-----------------------------------------------------------------------------
(* C8 *)

\* C8: a body that is no JSON, with a schema that is not nil, yields exactly
\* one error, a parse_error, and no required or type error.
C8_ParseErrorOnly ==
    (pc = "validated" /\ schema # NilSchema /\ req = InvalidJSON) =>
        (Len(result) = 1 /\ result[1].Type = "parse_error")

\* a body that is no JSON was sent for a struct with required fields
C8_Witness ==
    /\ pc = "validated" /\ schema = TestUser /\ req = InvalidJSON
    /\ Len(result) = 1

-----------------------------------------------------------------------------
(* C9 *)

\* C9: with a nil schema every body passes, a body that is no JSON included.
C9_NilSchemaAccepts ==
    (pc = "validated" /\ schema = NilSchema) => result = <<>>

\* a body that is no JSON was sent to a route without a schema
C9_Witness ==
    pc = "validated" /\ schema = NilSchema /\ req = InvalidJSON /\ result = <<>>

-----------------------------------------------------------------------------
(* C10 *)

\* C10, as claimed: with a slice schema every body that is JSON is accepted,
\* a JSON array of objects in particular.
C10_SliceSchemaAcceptsJSON ==
    (pc = "validated" /\ IsSliceSchema(schema) /\ req.parse = "ok") => result = <<>>

-----------------------------------------------------------------------------
(* C1 *)

\* C1, as claimed: the example generated for a struct type, encoded as JSON
\* and decoded again, validates against that type without any error.
C1_RoundTrip ==
    (pc = "example" /\ IsStructSchema(schema)) => result = <<>>

-----------------------------------------------------------------------------
(* C2 *)

\* the parts of a tag between its commas
RECURSIVE SplitComma(_)
SplitComma(s) ==
    IF \E i \in DOMAIN s : s[i] = ","
    THEN << BeforeComma(s) >> \o SplitComma(SubSeq(s, Len(BeforeComma(s)) + 2, Len(s)))
    ELSE << s >>

\* the tag marks the field omit-if-empty: omitempty is one of the options
\* that follow the name
HasOmitMarker(tag) ==
    \E k \in 2..Len(SplitComma(tag)) : SplitComma(tag)[k] = omitempty

Range(seq) == { seq[k] : k \in DOMAIN seq }

\* C2, as claimed: an included field is required exactly when it is no
\* pointer and its tag carries no omit-if-empty marker; exactly the required
\* fields are in the emitted `required` list, and exactly they get a required
\* error from the validator when the payload lacks their key. (Fields whose
\* wire name another field shares are left out: the list and the errors name
\* wire names.)
C2_RequirednessConsistency ==
    (pc = "empty" /\ jsonSchema # NoSchemaOut /\ IsStructSchema(schema)) =>
        LET fields == StructOf(schema).fields IN
        \A i \in DOMAIN fields :
          LET field == fields[i]
              name == getJSONFieldName(field)
              required == field.Type.kind # "ptr" /\ ~HasOmitMarker(field.Tag)
          IN  ( /\ IsExported(field) /\ name # <<"-">>
                /\ \A j \in DOMAIN fields :
                     getJSONFieldName(fields[j]) = name => j = i ) =>
              /\ required <=> name \in Range(jsonSchema.mainSchema.Required)
              /\ required <=> \E k \in ErrorsAt(result, name) :
                                  result[k].Type = "required"

-----------------------------------------------------------------------------
(* C3 *)

\* the wire name: the tag up to its first comma when there is a tag,
\* otherwise the identifier with its first letter in lower case
WireName(field) ==
    IF field.Tag # <<>>
    THEN BeforeComma(field.Tag)
    ELSE << ToLowerChar(field.Name[1]) >> \o Tail(field.Name)

\* the wire names of the fields that are exported and not tagged "-"
WireNames(t) ==
    { WireName(t.fields[i]) :
        i \in { j \in DOMAIN t.fields :
                  IsExported(t.fields[j]) /\ WireName(t.fields[j]) # <<"-">> } }

\* the names validateStruct looks up in the payload
ValidatedNames(t) ==
    { getJSONFieldName(t.fields[i]) :
        i \in { j \in DOMAIN t.fields : validatorIncludes(t.fields[j]) } }

\* C3: for a struct type the properties of the emitted schema, the keys of
\* the generated example and the names the validator looks up are one set,
\* the wire names of the exported fields not tagged "-"; every error the
\* validator reports is under one of these names.
C3_NamingAgreement ==
    (jsonSchema # NoSchemaOut /\ template # NoReq /\ IsStructSchema(schema)) =>
        LET names == WireNames(StructOf(schema)) IN
        /\ DOMAIN jsonSchema.mainSchema.Properties = names
        /\ DOMAIN template.doc.m = names
        /\ ValidatedNames(StructOf(schema)) = names
        /\ pc \in {"example", "empty"} => \A k \in DOMAIN result : result[k].Field \in names

\* schema, example and validation were produced for a struct with a skipped
\* field next to a field named by a tag with an option
C3_Witness ==
    /\ jsonSchema # NoSchemaOut /\ template # NoReq /\ IsStructSchema(schema)
    /\ pc = "empty"
    /\ \E i, j \in DOMAIN StructOf(schema).fields :
         LET skipped == StructOf(schema).fields[i]
             named == StructOf(schema).fields[j]
         IN  /\ skipped.Tag = <<"-">>
             /\ Len(SplitComma(named.Tag)) = 2
             /\ DOMAIN jsonSchema.mainSchema.Properties = { WireName(named) }
             /\ DOMAIN template.doc.m = { WireName(named) }

-----------------------------------------------------------------------------
(* Parameter validation *)

Digits == <<"0","1","2","3","4","5","6","7","8","9">>

IsDigit(c) == \E i \in DOMAIN Digits : Digits[i] = c

DigitVal(c) == (CHOOSE i \in DOMAIN Digits : Digits[i] = c) - 1

\* a digit string without its leading zeros
RECURSIVE StripZeros(_)
StripZeros(d) ==
    IF d # <<>> /\ d[1] = "0" THEN StripZeros(Tail(d)) ELSE d

\* a < b as decimal strings of the same length
RECURSIVE DigitsLess(_, _)
DigitsLess(a, b) ==
    IF a = <<>> THEN FALSE
    ELSE IF a[1] # b[1] THEN DigitVal(a[1]) < DigitVal(b[1])
    ELSE DigitsLess(Tail(a), Tail(b))

\* the number written as d exceeds the number written as limit
NumeralExceeds(d, limit) ==
    LET a == StripZeros(d) IN
    \/ Len(a) > Len(limit)
    \/ Len(a) = Len(limit) /\ DigitsLess(limit, a)

\* 1<<63 - 1 and 1<<63: the magnitudes strconv.ParseInt cuts off at for a
\* 64-bit int
MaxInt64Numeral == <<"9","2","2","3","3","7","2","0","3","6","8","5","4","7","7","5","8","0","7">>
MinInt64Numeral == <<"9","2","2","3","3","7","2","0","3","6","8","5","4","7","7","5","8","0","8">>

\* strconv.Atoi: the error it returns
Atoi(s) ==
    LET signed == s # <<>> /\ s[1] \in {"+", "-"}
        neg == s # <<>> /\ s[1] = "-"
        body == IF signed THEN Tail(s) ELSE s
    IN  IF body = <<>> \/ \E i \in DOMAIN body : ~IsDigit(body[i]) THEN "ErrSyntax"
        ELSE IF NumeralExceeds(body, IF neg THEN MinInt64Numeral ELSE MaxInt64Numeral)
             THEN "ErrRange"
        ELSE "nil"

\* strconv.ParseBool: the error it returns
ParseBool(str) ==
    IF str \in { <<"1">>, <<"t">>, <<"T">>, <<"T","R","U","E">>, <<"t","r","u","e">>, <<"T","r","u","e">>,
                 <<"0">>, <<"f">>, <<"F">>, <<"F","A","L","S","E">>, <<"f","a","l","s","e">>, <<"F","a","l","s","e">> }
    THEN "nil" ELSE "ErrSyntax"

\* strconv's commonPrefixLenIgnoreCase(s, prefix), prefix in lower case
RECURSIVE commonPrefixLenIgnoreCase(_, _)
commonPrefixLenIgnoreCase(s, prefix) ==
    IF s = <<>> \/ prefix = <<>> \/ ToLowerChar(s[1]) # prefix[1] THEN 0
    ELSE 1 + commonPrefixLenIgnoreCase(Tail(s), Tail(prefix))

\* strconv's special: how many characters of s spell an infinity or a NaN
special(s) ==
    IF s = <<>> THEN 0
    ELSE LET nsign == IF s[1] \in {"+", "-"} THEN 1 ELSE 0
             t == IF nsign = 1 THEN Tail(s) ELSE s
             n == commonPrefixLenIgnoreCase(t, <<"i","n","f","i","n","i","t","y">>)
             m == IF 3 < n /\ n < 8 THEN 3 ELSE n
         IN  IF s[1] \in {"+", "-", "i", "I"}
             THEN (IF m = 3 \/ m = 8 THEN nsign + m ELSE 0)
             ELSE IF s[1] \in {"n", "N"} /\ commonPrefixLenIgnoreCase(s, <<"n","a","n">>) = 3
                  THEN 3
             ELSE 0

\* strconv's readFloat, the mantissa loop from position i on: where it
\* stops, the digits it read and how many of them stood before the point
RECURSIVE readMantissa(_, _, _, _, _)
readMantissa(s, i, sawdot, digits, dp) ==
    IF i > Len(s) THEN [i |-> i, sawdot |-> sawdot, digits |-> digits, dp |-> dp]
    ELSE IF s[i] = "." /\ ~sawdot THEN readMantissa(s, i + 1, TRUE, digits, Len(digits))
    ELSE IF IsDigit(s[i]) THEN readMantissa(s, i + 1, sawdot, Append(digits, s[i]), dp)
    ELSE [i |-> i, sawdot |-> sawdot, digits |-> digits, dp |-> dp]

\* the exponent digits from position i on: where they stop, and their value
\* (readFloat stops adding at 10000)
RECURSIVE readExponent(_, _, _)
readExponent(s, i, e) ==
    IF i > Len(s) \/ ~IsDigit(s[i]) THEN [i |-> i, e |-> e]
    ELSE readExponent(s, i + 1, IF e < 10000 THEN e * 10 + DigitVal(s[i]) ELSE e)

\* the largest decimal exponent of a float64, and the first digits of the
\* least magnitude that rounds to infinity (2^1024 - 2^970)
MaxFloat64Exp10 == 308
InfThresholdDigits == <<"1","7","9","7","6","9","3","1","3","4","8","6","2","3","1","5","8","0","7","9","3","8">>

\* a with zeros appended up to length n
RECURSIVE PadZeros(_, _)
PadZeros(a, n) == IF Len(a) >= n THEN a ELSE PadZeros(Append(a, "0"), n)

\* the decimal d * 10^(exp - dp) is too large for a float64
Float64Overflows(digits, dp, exp) ==
    LET lead == StripZeros(digits)
        zeros == Len(digits) - Len(lead)
        adjusted == (dp - zeros - 1) + exp
        n == IF Len(lead) > Len(InfThresholdDigits) THEN Len(lead) ELSE Len(InfThresholdDigits)
    IN  /\ lead # <<>>
        /\ \/ adjusted > MaxFloat64Exp10
           \/ /\ adjusted = MaxFloat64Exp10
              /\ ~DigitsLess(PadZeros(lead, n), PadZeros(InfThresholdDigits, n))

\* strconv.ParseFloat(s, 64) on decimal text: the error it returns
ParseFloat(s) ==
    IF special(s) > 0 THEN (IF special(s) = Len(s) THEN "nil" ELSE "ErrSyntax")
    ELSE LET start == IF s # <<>> /\ s[1] \in {"+", "-"} THEN 2 ELSE 1
             m == readMantissa(s, start, FALSE, <<>>, 0)
             dp == IF m.sawdot THEN m.dp ELSE Len(m.digits)
             hasExp == m.i <= Len(s) /\ ToLowerChar(s[m.i]) = "e"
             esignAt == m.i + 1
             esigned == esignAt <= Len(s) /\ s[esignAt] \in {"+", "-"}
             eneg == esignAt <= Len(s) /\ s[esignAt] = "-"
             edigitsAt == IF esigned THEN esignAt + 1 ELSE esignAt
             x == readExponent(s, edigitsAt, 0)
         IN  IF m.digits = <<>> THEN "ErrSyntax"
             ELSE IF ~hasExp
                  THEN IF m.i # Len(s) + 1 THEN "ErrSyntax"
                       ELSE IF Float64Overflows(m.digits, dp, 0) THEN "ErrRange"
                       ELSE "nil"
             ELSE IF x.i = edigitsAt \/ x.i # Len(s) + 1 THEN "ErrSyntax"
             ELSE IF Float64Overflows(m.digits, dp, IF eneg THEN -x.e ELSE x.e)
                  THEN "ErrRange"
             ELSE "nil"

\* Parameter
Parameter(name, in, type, required) ==
    [Name |-> name, In |-> in, Type |-> type, Required |-> required]

\* c.Params / c.Query / c.Get: the value sent under the name, "" when none
Sent(c, in, name) ==
    IF <<in, name>> \in DOMAIN c.values THEN c.values[<<in, name>>] ELSE <<>>

\* getParameterValue: the value and whether it exists
getParameterValue(c, param) ==
    IF param.In \in {"path", "query", "header"}
    THEN LET value == Sent(c, param.In, param.Name)
         IN  [value |-> value, exists |-> value # <<>>]
    ELSE [value |-> <<>>, exists |-> FALSE]

\* validateParameterType with integer read by strconv.ParseFloat
validateParameterTypeIntAsFloat(value, paramType) ==
    LET t == ToLower(paramType) IN
    CASE t = <<"s","t","r","i","n","g">> -> "nil"
      [] t \in { <<"n","u","m","b","e","r">>, <<"f","l","o","a","t">>, <<"d","o","u","b","l","e">>, <<"i","n","t","e","g","e","r">>, <<"i","n","t">> } -> ParseFloat(value)
      [] t \in { <<"b","o","o","l","e","a","n">>, <<"b","o","o","l">> } -> ParseBool(value)
      [] OTHER -> "nil"

\* validateParameterType: the error it returns
validateParameterType(value, paramType) ==
    LET t == ToLower(paramType) IN
    CASE t = <<"s","t","r","i","n","g">> -> "nil"
      [] t \in { <<"n","u","m","b","e","r">>, <<"f","l","o","a","t">>, <<"d","o","u","b","l","e">> } -> ParseFloat(value)
      [] t \in { <<"i","n","t","e","g","e","r">>, <<"i","n","t">> } -> Atoi(value)
      [] t \in { <<"b","o","o","l","e","a","n">>, <<"b","o","o","l">> } -> ParseBool(value)
      [] OTHER -> "nil"

\* the body of ValidateParameters' loop without its first continue: the type
\* of a missing required parameter is checked as well
validateParameterNoContinue(c, param) ==
    LET got == getParameterValue(c, param)
        missing == ~got.exists \/ got.value = <<>>
        required == IF param.Required /\ missing
                    THEN << ValidationError(param.Name, "Required parameter is missing", "required") >>
                    ELSE <<>>
    IN  IF missing /\ ~param.Required THEN <<>>
        ELSE IF validateParameterType(got.value, param.Type) # "nil"
             THEN Append(required, ValidationError(param.Name, "Parameter must be of type", "type_error"))
        ELSE required

\* the body of ValidateParameters' loop: the errors of one parameter
validateParameter(c, param) ==
    LET got == getParameterValue(c, param)
        missing == ~got.exists \/ got.value = <<>>
    IN  IF param.Required /\ missing
        THEN << ValidationError(param.Name, "Required parameter is missing", "required") >>
        ELSE IF missing THEN <<>>
        ELSE IF validateParameterType(got.value, param.Type) # "nil"
             THEN << ValidationError(param.Name, "Parameter must be of type", "type_error") >>
        ELSE <<>>

\* ValidateParameters: the errors of the parameters from i on, in order
RECURSIVE validateParametersFrom(_, _, _)
validateParametersFrom(c, ps, i) ==
    IF i > Len(ps) THEN <<>>
    ELSE validateParameter(c, ps[i]) \o validateParametersFrom(c, ps, i + 1)

\* ValidateParameters: the Errors of the response, empty for a nil return
ValidateParameters(c, ps) == validateParametersFrom(c, ps, 1)

-----------------------------------------------------------------------------
(* Requests to a route with declared parameters *)

MaxParams == 2

\* the declared types: every case of validateParameterType's switch, in the
\* letter cases the switch folds, and types it does not know
ParamTypes ==
    { <<"s","t","r","i","n","g">>, <<"n","u","m","b","e","r">>, <<"f","l","o","a","t">>, <<"d","o","u","b","l","e">>, <<"i","n","t","e","g","e","r">>, <<"i","n","t">>, <<"b","o","o","l","e","a","n">>, <<"b","o","o","l">>,
      <<"I","n","t","e","g","e","r">>, <<"B","O","O","L","E","A","N">>, <<"u","n","k","n","o","w","n">>, <<"u","u","i","d">>, <<>> }

ParamLocations == {"path", "query", "header", "cookie"}

\* one parameter of every type, location and requiredness
KindParams ==
    { Parameter("v", in, t, r) : in \in ParamLocations, t \in ParamTypes, r \in BOOLEAN }

\* the parameters longer lists are made of
ParamPool ==
    { Parameter("name", "query", <<"s","t","r","i","n","g">>, TRUE),
      Parameter("age", "query", <<"i","n","t","e","g","e","r">>, TRUE),
      Parameter("age", "path", <<"i","n","t">>, FALSE),
      Parameter("active", "query", <<"b","o","o","l","e","a","n">>, FALSE),
      Parameter("price", "header", <<"n","u","m","b","e","r">>, TRUE),
      Parameter("trace", "cookie", <<"s","t","r","i","n","g">>, TRUE) }

RECURSIVE ParamSeqs(_)
ParamSeqs(n) ==
    IF n = 0 THEN { <<>> }
    ELSE LET shorter == ParamSeqs(n - 1) IN
         shorter \cup
         { Append(ps, p) : ps \in { s \in shorter : Len(s) = n - 1 }, p \in ParamPool }

ParamLists == { <<p>> : p \in KindParams } \cup ParamSeqs(MaxParams)

\* what a client writes as the value of a parameter: <<>> when it sends none
RawValues ==
    { <<>>, <<"J","o","h","n">>, <<"a","b","c">>, <<"n","o","t","-","a","-","n","u","m","b","e","r">>, <<"m","a","y","b","e">>, <<"y","e","s">>,
      <<"2","5">>, <<"-","5">>, <<"+","7">>, <<"0","0","7">>, <<"1","2","3">>, <<"+">>, <<"-">>, <<"-","-","5">>, <<" ","2","5">>, <<"1",",","5">>,
      <<"9","2","2","3","3","7","2","0","3","6","8","5","4","7","7","5","8","0","7">>, <<"9","2","2","3","3","7","2","0","3","6","8","5","4","7","7","5","8","0","8">>,
      <<"-","9","2","2","3","3","7","2","0","3","6","8","5","4","7","7","5","8","0","8">>, <<"-","9","2","2","3","3","7","2","0","3","6","8","5","4","7","7","5","8","0","9">>,
      <<"1","2","3",".","4","5">>, <<"3",".","1","4">>, <<".","5">>, <<"5",".">>, <<".">>, <<"-",".","5","e","1">>, <<"1",".","2",".","3">>,
      <<"1","e","3">>, <<"1","E","-","3">>, <<"1","e">>, <<"1","e","+">>, <<"e","5">>, <<"1","e","3","x">>,
      <<"1","e","3","0","8">>, <<"1",".","7","9","7","6","9","3","1","3","4","8","6","2","3","1","5","7","e","3","0","8">>, <<"1",".","8","e","3","0","8">>, <<"1","e","3","0","9">>, <<"0",".","0","e","4","0","0">>, <<"1","e","-","4","0","0">>,
      <<"N","a","N">>, <<"n","a","n">>, <<"+","n","a","n">>, <<"I","n","f">>, <<"-","i","n","f">>, <<"+","I","n","f","i","n","i","t","y">>, <<"i","n","f","i","n">>, <<"i","n","f","i","n","i","t","y","x">>,
      <<"t","r","u","e">>, <<"f","a","l","s","e">>, <<"T","r","u","e">>, <<"T","R","U","E">>, <<"t">>, <<"F">>, <<"1">>, <<"0">>, <<"t","R","u","E">>, <<"T">>, <<"f">>, <<"F","A","L","S","E">>, <<"F","a","l","s","e">> }

BaseRawValues == { <<>>, <<"a","b","c">>, <<"2","5">>, <<"t","r","u","e">> }

\* the places a list of parameters reads
ParamKeys(ps) == { <<ps[i].In, ps[i].Name>> : i \in DOMAIN ps }

\* the requests sent to a route that declares ps
Contexts(ps) ==
    { [values |-> v] :
        v \in [ParamKeys(ps) -> IF Len(ps) <= 1 THEN RawValues ELSE BaseRawValues] }

InitParams ==
    /\ arch \in Archs
    /\ schema = NilSchema
    /\ req = NoReq
    /\ result = <<>>
    /\ pc = "idle"
    /\ template = NoReq
    /\ jsonSchema = NoSchemaOut
    /\ typescript = NoTypeScript
    /\ params \in ParamLists
    /\ ctx = NoCtx
    /\ an = NoApiNote
    /\ resp = NoResp
    /\ walk = NoWalk
    /\ procs = NoProcs

\* a request arrives and the route's validation runs ValidateParameters on it
HandleParameters ==
    /\ pc = "idle"
    /\ \E c \in Contexts(params) :
        /\ ctx' = c
        /\ result' = ValidateParameters(c, params)
    /\ pc' = "validated"
    /\ UNCHANGED <<arch, schema, req, template, jsonSchema, typescript, params, an, resp, walk, procs>>

NextParams == HandleParameters

SpecParams == InitParams /\ [][NextParams]_vars

-----------------------------------------------------------------------------
(* C11 *)

\* the value the request carries for the parameter: none for a location
\* that holds no parameters
RawOf(c, param) ==
    IF param.In \in {"path", "query", "header"} /\ <<param.In, param.Name>> \in DOMAIN c.values
    THEN c.values[<<param.In, param.Name>>]
    ELSE <<>>

\* the kinds of error the parameter must give
ExpectedParamErrors(c, param) ==
    IF RawOf(c, param) = <<>>
    THEN (IF param.Required THEN << "required" >> ELSE <<>>)
    ELSE (IF validateParameterType(RawOf(c, param), param.Type) # "nil"
          THEN << "type_error" >> ELSE <<>>)

RECURSIVE ExpectedParamList(_, _, _)
ExpectedParamList(c, ps, i) ==
    IF i > Len(ps) THEN <<>>
    ELSE [k \in DOMAIN ExpectedParamErrors(c, ps[i]) |->
            [Field |-> ps[i].Name, Type |-> ExpectedParamErrors(c, ps[i])[k]]]
         \o ExpectedParamList(c, ps, i + 1)

\* C11: ValidateParameters examines every declared parameter on its own: a
\* required parameter that is absent or empty gives exactly one `required`
\* error and no type check, an optional one that is absent or empty gives
\* nothing, and the errors of all parameters follow in declaration order.
C11_ParametersIndependent ==
    (pc = "validated" /\ ctx # NoCtx) =>
        /\ Len(result) = Len(ExpectedParamList(ctx, params, 1))
        /\ \A k \in DOMAIN result :
            /\ result[k].Field = ExpectedParamList(ctx, params, 1)[k].Field
            /\ result[k].Type = ExpectedParamList(ctx, params, 1)[k].Type

\* a request with a missing required parameter, a missing optional one of a
\* type that "" does not parse as, and a later error
C11_Witness ==
    /\ pc = "validated" /\ ctx # NoCtx
    /\ Len(params) = 2
    /\ params[1].Required /\ RawOf(ctx, params[1]) = <<>>
    /\ Len(result) = 2
    /\ result[1].Type = "required" /\ result[1].Field = params[1].Name
    /\ result[2].Field = params[2].Name

-----------------------------------------------------------------------------
(* C12 *)

AllDigits(d) == d # <<>> /\ \A i \in DOMAIN d : IsDigit(d[i])

Unsigned(s) == IF s # <<>> /\ s[1] \in {"+", "-"} THEN Tail(s) ELSE s

\* the text is a decimal integer that an int holds
IsIntegerText(s) ==
    /\ AllDigits(Unsigned(s))
    /\ LET magnitude == StripZeros(Unsigned(s))
           limit == IF s[1] = "-" THEN MinInt64Numeral ELSE MaxInt64Numeral
       IN  Len(magnitude) < Len(limit)
           \/ (Len(magnitude) = Len(limit) /\ ~DigitsLess(limit, magnitude))

\* the number a short digit string writes
RECURSIVE NumeralValue(_)
NumeralValue(d) ==
    IF d = <<>> THEN 0 ELSE NumeralValue(SubSeq(d, 1, Len(d) - 1)) * 10 + DigitVal(d[Len(d)])

\* the text is a decimal floating-point literal of finite value: digits with
\* at most one point and at least one digit, then an optional exponent
IsDecimalFloatText(s) ==
    LET u == Unsigned(s) IN
    \E k \in 1..Len(u) :
        LET mant == SubSeq(u, 1, k)
            tail == SubSeq(u, k + 1, Len(u))
            points == { i \in DOMAIN mant : mant[i] = "." }
            digits == SelectSeq(mant, IsDigit)
            dp == IF points = {} THEN Len(mant) ELSE (CHOOSE i \in points : TRUE) - 1
            etext == Unsigned(Tail(tail))
        IN  /\ Cardinality(points) <= 1
            /\ digits # <<>>
            /\ Len(digits) + Cardinality(points) = Len(mant)
            /\ \/ tail = <<>> /\ ~Float64Overflows(digits, dp, 0)
               \/ /\ tail # <<>> /\ tail[1] \in {"e", "E"}
                  /\ AllDigits(etext)
                  /\ ~Float64Overflows(digits, dp,
                        IF Tail(tail)[1] = "-" THEN -NumeralValue(etext) ELSE NumeralValue(etext))

\* the text spells an infinity or a NaN, in any letter case
IsSpecialFloatText(s) ==
    ToLower(s) \in { <<"i","n","f">>, <<"+","i","n","f">>, <<"-","i","n","f">>, <<"i","n","f","i","n","i","t","y">>, <<"+","i","n","f","i","n","i","t","y">>, <<"-","i","n","f","i","n","i","t","y">>, <<"n","a","n">> }

IsFloatText(s) == IsSpecialFloatText(s) \/ IsDecimalFloatText(s)

\* the canonical boolean literals: one of 1 0 t f T F, or the word true or
\* false in lower case, in upper case, or capitalised
IsBoolText(s) ==
    \/ s \in { <<"1">>, <<"0">>, <<"t">>, <<"f">>, <<"T">>, <<"F">> }
    \/ \E w \in { <<"t","r","u","e">>, <<"f","a","l","s","e">> } :
          \/ s = w
          \/ s = [i \in DOMAIN w |-> ToUpperChar(w[i])]
          \/ s = [i \in DOMAIN w |-> IF i = 1 THEN ToUpperChar(w[i]) ELSE w[i]]

\* the value coerces to the declared type; a declared type is recognized
\* whatever its letter case
Coerces(type, raw) ==
    LET t == ToLower(type) IN
    CASE t \in { <<"n","u","m","b","e","r">>, <<"f","l","o","a","t">>, <<"d","o","u","b","l","e">> } -> IsFloatText(raw)
      [] t \in { <<"i","n","t","e","g","e","r">>, <<"i","n","t">> } -> IsIntegerText(raw)
      [] t \in { <<"b","o","o","l","e","a","n">>, <<"b","o","o","l">> } -> IsBoolText(raw)
      [] OTHER -> TRUE

\* C12: a present, non-empty value of a parameter passes iff it coerces to
\* the declared type: always for string and for every unrecognized type, for
\* number/float/double iff it parses as a floating-point number, for
\* integer/int iff it parses as an integer, for boolean/bool iff it is a
\* canonical boolean literal; a failing coercion gives exactly one type_error.
C12_ParameterCoercion ==
    (pc = "validated" /\ ctx # NoCtx /\ Len(params) = 1 /\ RawOf(ctx, params[1]) # <<>>) =>
        IF Coerces(params[1].Type, RawOf(ctx, params[1]))
        THEN result = <<>>
        ELSE /\ Len(result) = 1
             /\ result[1].Type = "type_error"
             /\ result[1].Field = params[1].Name

\* Scenario C: {name: "age", type: "integer", required: true} with "abc"
C12_Witness ==
    /\ pc = "validated" /\ ctx # NoCtx
    /\ Len(params) = 1
    /\ params[1].Type = <<"i","n","t","e","g","e","r">> /\ params[1].Required
    /\ RawOf(ctx, params[1]) = <<"a","b","c">>
    /\ Len(result) = 1 /\ result[1].Type = "type_error"

-----------------------------------------------------------------------------
(* JWT authentication *)

\* a compact JWT as the client sends it: whether it has its three segments,
\* the alg of its header, the key its signature was made with, whether the
\* signature still fits the signed text, and how its exp and nbf stand to now
Token(wellformed, alg, key, intact, expired, notYet) ==
    [wellformed |-> wellformed, alg |-> alg, key |-> key, intact |-> intact,
     expired |-> expired, notYet |-> notYet]

\* the signing methods jwt registers, and those of type *SigningMethodHMAC
SigningMethods ==
    {"HS256", "HS384", "HS512", "RS256", "ES256", "PS256", "EdDSA", "none"}
SigningMethodHMAC == {"HS256", "HS384", "HS512"}

\* a run of header text without a space in it, and the space
Word(w) == [word |-> w]
Space == Word(" ")

IsToken(a) == "alg" \in DOMAIN a

\* jwt.Parse with the key function of JWTMiddleware: err == nil && token.Valid
ParseValid(tokenStr, jwtSecret) ==
    /\ Len(tokenStr) = 1
    /\ IsToken(tokenStr[1])
    /\ LET token == tokenStr[1] IN
       /\ token.wellformed
       /\ token.alg \in SigningMethods
       \* the key function: only an HMAC method gets the secret
       /\ token.alg \in SigningMethodHMAC
       \* method.Verify with []byte(an.jwtSecret)
       /\ token.key = jwtSecret /\ token.intact
       \* the validator: exp and nbf
       /\ ~token.expired /\ ~token.notYet

\* the outcome of a middleware: the status it answers with, or Next
Answer(status) == [next |-> FALSE, status |-> status]
CallNext == [next |-> TRUE, status |-> 0]

\* JWTMiddleware without the check of the signing method: the key function
\* hands the secret to any method, and "none" verifies without a key
JWTMiddlewareAnyMethod(jwtSecret, c) ==
    LET authHeader == c.auth
        parts == Split(authHeader, Space)
    IN  IF authHeader = <<>> THEN Answer(401)
        ELSE IF Len(parts) # 2 \/ parts[1] # << Word("Bearer") >> THEN Answer(401)
        ELSE IF \/ ParseValid(parts[2], jwtSecret)
                \/ /\ Len(parts[2]) = 1 /\ IsToken(parts[2][1])
                   /\ parts[2][1].wellformed /\ parts[2][1].alg = "none"
                   /\ ~parts[2][1].expired /\ ~parts[2][1].notYet
             THEN CallNext
        ELSE Answer(401)

\* JWTMiddleware
JWTMiddleware(jwtSecret, c) ==
    LET authHeader == c.auth
        parts == Split(authHeader, Space)
    IN  IF authHeader = <<>> THEN Answer(401)
        ELSE IF Len(parts) # 2 \/ parts[1] # << Word("Bearer") >> THEN Answer(401)
        ELSE IF ~ParseValid(parts[2], jwtSecret) THEN Answer(401)
        ELSE CallNext

-----------------------------------------------------------------------------
(* ApiNote: middleware lists and route registration *)

\* fiber.Handler values: the JWT middleware, a custom authentication
\* middleware, the validation middleware of an endpoint, a custom middleware,
\* a route handler, a handler of the documentation pages, and nil
JWTHandler == [kind |-> "jwt"]
AuthHandler(id) == [kind |-> "auth", id |-> id]
ValidationHandler(endpoint) == [kind |-> "validation", endpoint |-> endpoint]
UseHandler(id) == [kind |-> "use", id |-> id]
RouteHandler(id) == [kind |-> "route", id |-> id]
DocsHandler(id) == [kind |-> "docs", id |-> id]
NilHandler == [kind |-> "nil"]

\* *bool
NilBool == [nil |-> TRUE]
BoolPtr(b) == [v |-> b]

\* a route of the fiber app
Route(method, path, handlers) == [method |-> method, path |-> path, handlers |-> handlers]

\* NewApiNote: empty registry and lists, and the app with the documentation
\* routes
NewApiNote(config, jwtSecret) ==
    [config |-> config,
     endpoints |-> <<>>,
     app |-> << Route(<<"G","E","T">>, <<"/","a","p","i","-","d","o","c","s">>, << DocsHandler("docs") >>),
                Route(<<"G","E","T">>, <<"/","a","p","i","-","d","o","c","s","/","m","e","t","r","i","c","s">>, << DocsHandler("metrics") >>),
                Route(<<"G","E","T">>, <<"/","a","p","i","-","d","o","c","s","/","i","n","d","e","n","t">>, << DocsHandler("indent") >>),
                Route(<<"G","E","T">>, <<"/","a","p","i","-","d","o","c","s","/","o","p","e","n","a","p","i",".","j","s","o","n">>, << DocsHandler("openapi") >>),
                Route(<<"G","E","T">>, <<"/","i","c","o","n",".","p","n","g">>, << DocsHandler("icon") >>),
                Route(<<"G","E","T">>, <<"/","f","a","v","i","c","o","n",".","i","c","o">>, << DocsHandler("icon") >>) >>,
     middlewares |-> <<>>,
     jwtMiddlewares |-> <<>>,
     customAuthMiddleware |-> <<>>,
     jwtSecret |-> jwtSecret]

\* Use
Use(a, middleware) == [a EXCEPT !.middlewares = @ \o middleware]

\* UseJWT
UseJWT(a) == [a EXCEPT !.jwtMiddlewares = Append(@, JWTHandler)]

\* UseCustomAuth
UseCustomAuth(a, middleware) == [a EXCEPT !.customAuthMiddleware = @ \o middleware]

\* DocumentedRouteInput
DocumentedRouteInput(method, path, handler, ps, schemasRequest, authRequired) ==
    [Method |-> method, Path |-> path, Handler |-> handler, Params |-> ps,
     SchemasRequest |-> schemasRequest, SchemasResponse |-> NilSchema,
     AuthRequired |-> authRequired]

\* Endpoint
Endpoint(method, path, ps, authRequired, requestSchema, responseSchema) ==
    [Method |-> method, Path |-> path, Parameters |-> ps,
     AuthRequired |-> authRequired,
     RequestSchema |-> requestSchema, ResponseSchema |-> responseSchema]

\* the methods DocumentedRoute's switch has a case for
RoutedMethods ==
    { <<"G","E","T">>, <<"P","O","S","T">>, <<"P","U","T">>, <<"D","E","L","E","T","E">>, <<"P","A","T","C","H">>, <<"H","E","A","D">>, <<"C","O","N","N","E","C","T">>, <<"O","P","T","I","O","N","S">>, <<"T","R","A","C","E">> }

\* DocumentedRoute's rule for the flag with the custom middlewares of Use
\* counted as authentication
authRequiredCountsUse(a, input) ==
    IF input.AuthRequired # NilBool
    THEN input.AuthRequired.v
    ELSE Len(a.jwtMiddlewares) > 0 \/ Len(a.customAuthMiddleware) > 0
         \/ Len(a.middlewares) > 0

\* DocumentedRoute: the AuthRequired of the endpoint
authRequired(a, input) ==
    IF input.AuthRequired # NilBool
    THEN input.AuthRequired.v
    ELSE Len(a.jwtMiddlewares) > 0 \/ Len(a.customAuthMiddleware) > 0

\* DocumentedRoute: the handlers of the route, in order
routeHandlers(a, input, endpoint) ==
    (IF endpoint.AuthRequired THEN a.jwtMiddlewares \o a.customAuthMiddleware ELSE <<>>)
    \o (IF Len(endpoint.Parameters) > 0 \/ endpoint.RequestSchema # NilSchema
        THEN << ValidationHandler(endpoint) >> ELSE <<>>)
    \o a.middlewares
    \o << input.Handler >>

\* DocumentedRoute: the ApiNote afterwards and the error returned
DocumentedRoute(a, input) ==
    IF input.Method = <<>> \/ input.Path = <<>>
    THEN [an |-> a, err |-> "method and path are required"]
    ELSE IF input.Handler = NilHandler
    THEN [an |-> a, err |-> "handler is required"]
    ELSE LET key == input.Method \o <<" ">> \o input.Path
             endpoint == Endpoint(input.Method, a.config.BasePath \o input.Path,
                                  input.Params, authRequired(a, input),
                                  input.SchemasRequest, input.SchemasResponse)
             documented == [a EXCEPT !.endpoints = (key :> endpoint) @@ @]
             handlers == routeHandlers(a, input, endpoint)
             path == a.config.BasePath \o input.Path
         IN  IF ToUpper(input.Method) \in RoutedMethods
             THEN [an |-> [documented EXCEPT
                             !.app = Append(@, Route(ToUpper(input.Method), path, handlers))],
                   err |-> "nil"]
             ELSE [an |-> documented, err |-> "unsupported HTTP method"]

-----------------------------------------------------------------------------
(* Requests to a route behind JWTMiddleware *)

MaxHeaderParts == 3

Secrets == {"", "s3cret"}

\* the tokens a client may hold
Tokens ==
    { Token(TRUE, "HS256", k, TRUE, FALSE, FALSE) : k \in {"", "s3cret", "guess"} }
    \cup { Token(TRUE, "HS512", "s3cret", TRUE, FALSE, FALSE),
           Token(TRUE, "HS256", "s3cret", TRUE, TRUE, FALSE),
           Token(TRUE, "HS256", "s3cret", TRUE, FALSE, TRUE),
           Token(TRUE, "HS256", "s3cret", FALSE, FALSE, FALSE),
           Token(FALSE, "HS256", "s3cret", TRUE, FALSE, FALSE),
           Token(TRUE, "RS256", "s3cret", TRUE, FALSE, FALSE),
           Token(TRUE, "RS256", "private", TRUE, FALSE, FALSE),
           Token(TRUE, "none", "", TRUE, FALSE, FALSE),
           Token(TRUE, "HS1", "s3cret", TRUE, FALSE, FALSE) }

HeaderAtoms == { Space, Word("Bearer"), Word("bearer"), Word("Basic") } \cup Tokens

RECURSIVE HeadersUpTo(_)
HeadersUpTo(n) ==
    IF n = 0 THEN { <<>> }
    ELSE LET shorter == HeadersUpTo(n - 1) IN
         shorter \cup { Append(h, a) : h \in { s \in shorter : Len(s) = n - 1 },
                                       a \in HeaderAtoms }

\* the Config handed to NewApiNote
Config == [BasePath |-> <<"/","a","p","i">>]

InitJWT ==
    /\ arch \in Archs
    /\ schema = NilSchema
    /\ req = NoReq
    /\ result = <<>>
    /\ pc = "idle"
    /\ template = NoReq
    /\ jsonSchema = NoSchemaOut
    /\ typescript = NoTypeScript
    /\ params = NoParams
    /\ ctx = NoCtx
    /\ \E s \in Secrets : an = NewApiNote(Config, s)
    /\ resp = NoResp
    /\ walk = NoWalk
    /\ procs = NoProcs

\* a request reaches JWTMiddleware; next is the handler behind it
ServeJWT ==
    /\ pc = "idle"
    /\ \E h \in HeadersUpTo(MaxHeaderParts) :
        /\ ctx' = [auth |-> h]
        /\ resp' = JWTMiddleware(an.jwtSecret, ctx')
    /\ pc' = "served"
    /\ UNCHANGED <<arch, schema, req, result, template, jsonSchema, typescript, params, an, walk, procs>>

NextJWT == ServeJWT

SpecJWT == InitJWT /\ [][NextJWT]_vars

-----------------------------------------------------------------------------
(* C15 *)

\* the header is exactly Bearer, one space, and a token that is signed with
\* an HMAC method under the configured secret and is valid now
GoodBearer(h, secret) ==
    /\ Len(h) = 3
    /\ h[1] = Word("Bearer") /\ h[2] = Space /\ IsToken(h[3])
    /\ h[3].wellformed /\ h[3].intact
    /\ h[3].alg \in {"HS256", "HS384", "HS512"}
    /\ h[3].key = secret
    /\ ~h[3].expired /\ ~h[3].notYet

\* C15: JWTMiddleware calls the next handler only for an Authorization header
\* of the exact form `Bearer <token>` whose token is HMAC-signed with the
\* configured secret and valid; in every other case it answers 401 and the
\* next handler is not invoked.
C15_JWTGate ==
    pc = "served" =>
        IF GoodBearer(ctx.auth, an.jwtSecret)
        THEN resp.next
        ELSE ~resp.next /\ resp.status = 401

\* a good token passes, and a token of a non-HMAC method is turned away
C15_Witness ==
    /\ pc = "served"
    /\ Len(ctx.auth) = 3 /\ ctx.auth[1] = Word("Bearer") /\ ctx.auth[2] = Space
    /\ IsToken(ctx.auth[3]) /\ ctx.auth[3].alg = "none"
    /\ resp.status = 401

C15_PassWitness ==
    pc = "served" /\ resp.next /\ an.jwtSecret = "s3cret"

-----------------------------------------------------------------------------
(* Registration: the calls a program makes on its ApiNote before it listens *)

MaxUses == 2
MaxRoutes == 1

AgeParam == Parameter("age", "query", <<"i","n","t","e","g","e","r">>, TRUE)

\* what a program passes to Use and to UseCustomAuth; UseCustomAuth is
\* variadic and may be given nothing
UseArgs == { << UseHandler("log") >> }
CustomAuthArgs == { <<>>, << AuthHandler("gate") >> }

\* the inputs of DocumentedRoute: every way it fails, and the routes it
\* registers, with and without validation and with the flag unset or set
RouteInputs ==
    { DocumentedRouteInput(m, <<"/","u","s","e","r","s">>, RouteHandler("h"), v[1], v[2], f) :
        m \in { <<"G","E","T">>, <<"P","O","S","T">>, <<"p","o","s","t">>, <<"F","E","T","C","H">> },
        v \in { << <<>>, NilSchema >>, << << AgeParam >>, TestUser >> },
        f \in { NilBool, BoolPtr(TRUE), BoolPtr(FALSE) } }
    \cup { DocumentedRouteInput(<<>>, <<"/","u","s","e","r","s">>, RouteHandler("h"), <<>>, NilSchema, NilBool),
           DocumentedRouteInput(<<"G","E","T">>, <<>>, RouteHandler("h"), <<>>, NilSchema, NilBool),
           DocumentedRouteInput(<<"G","E","T">>, <<"/","u","s","e","r","s">>, NilHandler, <<>>, NilSchema, NilBool) }

\* a call on the ApiNote, as the log keeps it
Call(op, args, err) == [op |-> op, args |-> args, err |-> err]

CallsOf(ops) == { i \in DOMAIN resp.calls : resp.calls[i].op \in ops }

InitRegister ==
    /\ arch \in Archs
    /\ schema = NilSchema
    /\ req = NoReq
    /\ result = <<>>
    /\ pc = "idle"
    /\ template = NoReq
    /\ jsonSchema = NoSchemaOut
    /\ typescript = NoTypeScript
    /\ params = NoParams
    /\ ctx = NoCtx
    /\ an = NewApiNote(Config, "s3cret")
    /\ resp = [calls |-> <<>>]
    /\ walk = NoWalk
    /\ procs = NoProcs

RegisterUnchanged == UNCHANGED <<arch, schema, req, result, template, jsonSchema, typescript, params, ctx, walk, procs>>

\* api.Use(...)
CallUse ==
    /\ Cardinality(CallsOf({"Use", "UseJWT", "UseCustomAuth"})) < MaxUses
    /\ \E mw \in UseArgs :
        /\ an' = Use(an, mw)
        /\ resp' = [calls |-> Append(resp.calls, Call("Use", mw, "nil"))]
    /\ pc' = "Use"
    /\ RegisterUnchanged

\* api.UseJWT()
CallUseJWT ==
    /\ Cardinality(CallsOf({"Use", "UseJWT", "UseCustomAuth"})) < MaxUses
    /\ an' = UseJWT(an)
    /\ resp' = [calls |-> Append(resp.calls, Call("UseJWT", <<>>, "nil"))]
    /\ pc' = "UseJWT"
    /\ RegisterUnchanged

\* api.UseCustomAuth(...)
CallUseCustomAuth ==
    /\ Cardinality(CallsOf({"Use", "UseJWT", "UseCustomAuth"})) < MaxUses
    /\ \E mw \in CustomAuthArgs :
        /\ an' = UseCustomAuth(an, mw)
        /\ resp' = [calls |-> Append(resp.calls, Call("UseCustomAuth", mw, "nil"))]
    /\ pc' = "UseCustomAuth"
    /\ RegisterUnchanged

\* api.DocumentedRoute(input)
CallDocumentedRoute ==
    /\ Cardinality(CallsOf({"DocumentedRoute"})) < MaxRoutes
    /\ \E input \in RouteInputs :
        LET out == DocumentedRoute(an, input) IN
        /\ an' = out.an
        /\ resp' = [calls |-> Append(resp.calls, Call("DocumentedRoute", input, out.err))]
    /\ pc' = "DocumentedRoute"
    /\ RegisterUnchanged

NextRegister == CallUse \/ CallUseJWT \/ CallUseCustomAuth \/ CallDocumentedRoute

SpecRegister == InitRegister /\ [][NextRegister]_vars

-----------------------------------------------------------------------------
(* C14 *)

\* the call the step made
LastCall == resp'.calls[Len(resp'.calls)]

KeyOf(input) == input.Method \o <<" ">> \o input.Path

\* the calls so far include one of UseJWT or UseCustomAuth
AuthCalled == CallsOf({"UseJWT", "UseCustomAuth"}) # {}

\* the calls so far include UseJWT, or a UseCustomAuth that was given a
\* middleware
AuthInstalled ==
    \E i \in CallsOf({"UseJWT", "UseCustomAuth"}) :
        resp.calls[i].op = "UseJWT" \/ resp.calls[i].args # <<>>

-----------------------------------------------------------------------------
(* Serving: a request runs through the handlers of the route it matches *)

\* validationHandler: the closure DocumentedRoute builds for an endpoint
validationHandler(endpoint, c) ==
    LET paramErrors == IF Len(endpoint.Parameters) > 0
                       THEN ValidateParameters(c, endpoint.Parameters)
                       ELSE <<>>
        bodyErrors == IF endpoint.RequestSchema # NilSchema
                         /\ endpoint.Method \in { <<"P","O","S","T">>, <<"P","U","T">>, <<"P","A","T","C","H">> }
                      THEN ValidateRequestBody(c.body, endpoint.RequestSchema)
                      ELSE <<>>
    IN  IF paramErrors # <<>>
        THEN [next |-> FALSE, status |-> 400, errors |-> paramErrors]
        ELSE IF bodyErrors # <<>>
        THEN [next |-> FALSE, status |-> 400, errors |-> bodyErrors]
        ELSE CallNext

\* what a handler does with the request. The program's own handlers: "log"
\* goes on, "gate" answers 401 to a request without credentials, a route
\* handler and a documentation page answer 200.
Handle(a, h, c) ==
    CASE h.kind = "jwt" -> JWTMiddleware(a.jwtSecret, c)
      [] h.kind = "auth" -> IF c.auth = <<>> THEN Answer(401) ELSE CallNext
      [] h.kind = "validation" -> validationHandler(h.endpoint, c)
      [] h.kind = "use" -> CallNext
      [] h.kind = "route" -> Answer(200)
      [] h.kind = "docs" -> Answer(200)

\* the handlers from the i-th on, each run when the one before it calls Next
RECURSIVE RunChain(_, _, _, _, _)
RunChain(a, handlers, i, c, ran) ==
    IF i > Len(handlers) THEN [status |-> 404, errors |-> <<>>, ran |-> ran]
    ELSE LET out == Handle(a, handlers[i], c) IN
         IF out.next THEN RunChain(a, handlers, i + 1, c, Append(ran, handlers[i]))
         ELSE [status |-> out.status,
               errors |-> IF "errors" \in DOMAIN out THEN out.errors ELSE <<>>,
               ran |-> Append(ran, handlers[i])]

\* the routes of the app the request matches, in registration order
Matching(a, c) ==
    SelectSeq(a.app, LAMBDA r : r.method = c.method /\ r.path = c.path)

\* the app serves a request: the first matching route's handlers, 404 for none
ServeRequest(a, c) ==
    IF Matching(a, c) = <<>> THEN [status |-> 404, errors |-> <<>>, ran |-> <<>>]
    ELSE RunChain(a, Matching(a, c)[1].handlers, 1, c, <<>>)

\* the programs served: what they call before they register their route
ServePrograms ==
    { <<>>, << "Use" >>, << "UseJWT" >>, << "UseCustomAuth" >>, << "UseJWT", "Use" >> }

RECURSIVE Configure(_, _)
Configure(a, calls) ==
    IF calls = <<>> THEN a
    ELSE Configure(CASE calls[1] = "Use" -> Use(a, << UseHandler("log") >>)
                     [] calls[1] = "UseJWT" -> UseJWT(a)
                     [] calls[1] = "UseCustomAuth" -> UseCustomAuth(a, << AuthHandler("gate") >>),
                   Tail(calls))

\* the routes they register: every method case and every mix of declared
\* parameters and request schema
ServeInputs ==
    { DocumentedRouteInput(m, <<"/","u","s","e","r","s">>, RouteHandler("h"), ps, sch, NilBool) :
        m \in { <<"G","E","T">>, <<"P","O","S","T">>, <<"p","o","s","t">>, <<"P","u","t">>, <<"P","A","T","C","H">> },
        ps \in { <<>>, << AgeParam >> },
        sch \in { NilSchema, TestUser } }

GoodToken == Token(TRUE, "HS256", "s3cret", TRUE, FALSE, FALSE)

\* the requests clients send to /api/users
Requests ==
    { [method |-> m, path |-> <<"/","a","p","i","/","u","s","e","r","s">>, values |-> v, auth |-> h, body |-> b] :
        m \in { <<"G","E","T">>, <<"P","O","S","T">>, <<"P","U","T">>, <<"P","A","T","C","H">> },
        v \in { <<>> } \cup { (<<"query", "age">> :> x) : x \in { <<"a","b","c">>, <<"2","5">> } },
        h \in { <<>>, << Word("Bearer"), Space, GoodToken >> },
        b \in { InvalidJSON, JSONBody(MapValue(<<>>)), JSONBody(UserFull), JSONBody(UserBadAge) } }

InitServe ==
    /\ arch \in Archs
    /\ schema = NilSchema
    /\ req = NoReq
    /\ result = <<>>
    /\ pc = "idle"
    /\ template = NoReq
    /\ jsonSchema = NoSchemaOut
    /\ typescript = NoTypeScript
    /\ params = NoParams
    /\ ctx = NoCtx
    /\ \E calls \in ServePrograms, input \in ServeInputs :
          an = DocumentedRoute(Configure(NewApiNote(Config, "s3cret"), calls), input).an
    /\ resp = NoResp
    /\ walk = NoWalk
    /\ procs = NoProcs

\* a request arrives and the app runs the handlers of its route
Serve ==
    /\ pc = "idle"
    /\ \E c \in Requests :
        /\ ctx' = c
        /\ resp' = ServeRequest(an, c)
    /\ pc' = "served"
    /\ UNCHANGED <<arch, schema, req, result, template, jsonSchema, typescript, params, an, walk, procs>>

NextServe == Serve

SpecServe == InitServe /\ [][NextServe]_vars

-----------------------------------------------------------------------------
(* C13 *)

\* the route the request was served by
ServedRoute == Matching(an, ctx)[1]

\* the endpoint of the served route, when it was registered with parameters
\* or a request schema
Validated(route) == \E i \in DOMAIN route.handlers : route.handlers[i].kind = "validation"
EndpointOf(route) ==
    route.handlers[CHOOSE i \in DOMAIN route.handlers : route.handlers[i].kind = "validation"].endpoint

\* the validation errors of the request: of its parameters, and of its body
\* on a route that takes one (POST, PUT or PATCH, as the app routes it)
RequestErrors(route, c) ==
    LET endpoint == EndpointOf(route) IN
    ValidateParameters(c, endpoint.Parameters)
    \o (IF endpoint.RequestSchema # NilSchema /\ route.method \in { <<"P","O","S","T">>, <<"P","U","T">>, <<"P","A","T","C","H">> }
        THEN ValidateRequestBody(c.body, endpoint.RequestSchema)
        ELSE <<>>)

RanKinds(kinds) == { i \in DOMAIN resp.ran : resp.ran[i].kind \in kinds }

\* C13: on a route registered with parameters or a request schema, a request
\* that reaches the validation middleware and fails parameter or body
\* validation is answered 400 and neither the route handler nor a later
\* middleware runs; the route handler runs only after the validation
\* middleware ran and the request validated.
C13_ValidationBeforeHandler ==
    (pc = "served" /\ Matching(an, ctx) # <<>> /\ Validated(ServedRoute)) =>
        /\ (RanKinds({"validation"}) # {} /\ RequestErrors(ServedRoute, ctx) # <<>>) =>
               (resp.status = 400 /\ RanKinds({"route", "use"}) = {})
        /\ RanKinds({"route"}) # {} =>
               /\ \E i \in RanKinds({"validation"}) : \A j \in RanKinds({"route", "use"}) : i < j
               /\ RequestErrors(ServedRoute, ctx) = <<>>

-----------------------------------------------------------------------------
(* C16 *)

\* the $ref strings of a schema node and of everything under it
RECURSIVE RefsOf(_)
RefsOf(node) ==
    IF node = NoSchema THEN {}
    ELSE (IF node.Ref # "" THEN {node.Ref} ELSE {})
         \cup RefsOf(node.Items)
         \cup UNION { RefsOf(node.Properties[k]) : k \in DOMAIN node.Properties }

\* the $ref strings the returned component map resolves
Resolvable(components) == { "#/components/schemas/" \o n : n \in DOMAIN components }

\* C16: every $ref anywhere in the main schema or in a component schema that
\* generateJSONSchema returns names an entry of the returned component map.
C16_RefsResolvable ==
    jsonSchema # NoSchemaOut =>
        /\ RefsOf(jsonSchema.mainSchema) \subseteq Resolvable(jsonSchema.componentSchemas)
        /\ \A n \in DOMAIN jsonSchema.componentSchemas :
              RefsOf(jsonSchema.componentSchemas[n]) \subseteq Resolvable(jsonSchema.componentSchemas)

-----------------------------------------------------------------------------
(* Type walks over named types that may refer to themselves *)

\* the Go stack, in frames: a goroutine that outgrows it dies with
\* "fatal error: stack overflow"
MaxStack == 6

\* a struct type referred to by its name
Named(name) == [kind |-> "named", name |-> name]

\* the declared struct types walked: a list node, a tree, two types that
\* hold each other, and two that do not recurse
TypeNames == {"Node", "Tree", "Author", "Book", "Leaf", "Branch"}

FieldsOf(name) ==
    CASE name = "Node" ->
            << Field(<<"V","a","l","u","e">>, "", <<"v","a","l","u","e">>, Prim("int")),
               Field(<<"N","e","x","t">>, "", <<"n","e","x","t",",","o","m","i","t","e","m","p","t","y">>, PtrTo(Named("Node"))) >>
      [] name = "Tree" ->
            << Field(<<"C","h","i","l","d","r","e","n">>, "", <<"c","h","i","l","d","r","e","n">>, SliceOf(Named("Tree"))) >>
      [] name = "Author" ->
            << Field(<<"N","a","m","e">>, "", <<"n","a","m","e">>, Prim("string")),
               Field(<<"B","o","o","k","s">>, "", <<"b","o","o","k","s">>, SliceOf(PtrTo(Named("Book")))) >>
      [] name = "Book" ->
            << Field(<<"A","u","t","h","o","r">>, "", <<"a","u","t","h","o","r">>, PtrTo(Named("Author"))),
               Field(<<"T","i","t","l","e">>, "", <<"t","i","t","l","e">>, Prim("string")) >>
      [] name = "Leaf" ->
            << Field(<<"N","a","m","e">>, "", <<"n","a","m","e">>, Prim("string")) >>
      [] name = "Branch" ->
            << Field(<<"L","e","f","t">>, "", <<"l","e","f","t">>, Named("Leaf")),
               Field(<<"L","e","a","v","e","s">>, "", <<"l","e","a","v","e","s">>, SliceOf(Named("Leaf"))),
               Field(<<"R","i","g","h","t">>, "", <<"r","i","g","h","t">>, PtrTo(Named("Leaf"))) >>

\* generateExampleValue goes through every pointer and slice to the element
RECURSIVE exampleElem(_)
exampleElem(t) == IF t.kind \in {"ptr", "slice"} THEN exampleElem(t.elem) ELSE t

\* a call of collectComponentSchemas or generateJSONFromType on a struct
\* type, at its i-th field
Frame(typ, i) == [typ |-> typ, i |-> i]

\* the struct type the walker would call itself on for a field, none
\* otherwise
Callee(fn, field) ==
    LET t == IF fn = "collectComponentSchemas" THEN elemStruct(field.Type)
             ELSE exampleElem(field.Type)
    IN  IF t.kind = "named" /\ (fn = "collectComponentSchemas" \/ generatorIncludes(field))
        THEN t.name ELSE ""

InitWalk ==
    /\ arch \in Archs
    /\ schema = NilSchema
    /\ req = NoReq
    /\ result = <<>>
    /\ pc = "idle"
    /\ template = NoReq
    /\ jsonSchema = NoSchemaOut
    /\ typescript = NoTypeScript
    /\ params = NoParams
    /\ ctx = NoCtx
    /\ an = NoApiNote
    /\ resp = NoResp
    /\ procs = NoProcs
    /\ \E fn \in {"collectComponentSchemas", "generateJSONFromType"}, root \in TypeNames :
          walk = [fn |-> fn, stack |-> << Frame(root, 1) >>, schemas |-> {}, pc |-> "running"]

WalkUnchanged ==
    UNCHANGED <<arch, schema, req, result, pc, template, jsonSchema, typescript, params, ctx, an, resp, procs>>

Top == walk.stack[Len(walk.stack)]

\* the stack with the index of its top frame moved to the next field
Advanced == [walk.stack EXCEPT ![Len(walk.stack)].i = @ + 1]

\* the loop of the top call is at a field that needs no call: a field of no
\* struct type, or for collectComponentSchemas one whose type is in schemas
WalkField ==
    /\ walk.pc = "running"
    /\ Top.i <= Len(FieldsOf(Top.typ))
    /\ LET callee == Callee(walk.fn, FieldsOf(Top.typ)[Top.i]) IN
       \/ callee = ""
       \/ walk.fn = "collectComponentSchemas" /\ callee \in walk.schemas
    /\ walk' = [walk EXCEPT !.stack = Advanced]
    /\ WalkUnchanged

\* the loop of the top call is at a field of struct type: the walker calls
\* itself on it
WalkCall ==
    /\ walk.pc = "running"
    /\ Len(walk.stack) < MaxStack
    /\ Top.i <= Len(FieldsOf(Top.typ))
    /\ LET callee == Callee(walk.fn, FieldsOf(Top.typ)[Top.i]) IN
       /\ callee # ""
       /\ ~(walk.fn = "collectComponentSchemas" /\ callee \in walk.schemas)
       /\ walk' = [walk EXCEPT !.stack = Append(Advanced, Frame(callee, 1))]
    /\ WalkUnchanged

\* the call would not fit the stack any more: the runtime stops the program
WalkOverflow ==
    /\ walk.pc = "running"
    /\ Len(walk.stack) = MaxStack
    /\ Top.i <= Len(FieldsOf(Top.typ))
    /\ LET callee == Callee(walk.fn, FieldsOf(Top.typ)[Top.i]) IN
       /\ callee # ""
       /\ ~(walk.fn = "collectComponentSchemas" /\ callee \in walk.schemas)
    /\ walk' = [walk EXCEPT !.pc = "fatal"]
    /\ WalkUnchanged

\* the loop of the top call is over: collectComponentSchemas enters the type
\* into schemas, and the call returns
WalkReturn ==
    /\ walk.pc = "running"
    /\ Top.i > Len(FieldsOf(Top.typ))
    /\ walk' = [walk EXCEPT
                  !.stack = SubSeq(@, 1, Len(@) - 1),
                  !.schemas = IF walk.fn = "collectComponentSchemas"
                              THEN @ \cup {Top.typ} ELSE @,
                  !.pc = IF Len(walk.stack) = 1 THEN "done" ELSE "running"]
    /\ WalkUnchanged

NextWalk == WalkField \/ WalkCall \/ WalkOverflow \/ WalkReturn

SpecWalk == InitWalk /\ [][NextWalk]_vars

-----------------------------------------------------------------------------
(* C17 *)

\* C17: on a self-referential or mutually recursive struct type the schema
\* walk and the example walk terminate: a type already in progress on the
\* call stack is not entered a second time, and the walk never outgrows the
\* stack.
C17_CycleGuard ==
    walk # NoWalk =>
        /\ walk.pc # "fatal"
        /\ \A i, j \in DOMAIN walk.stack :
              walk.stack[i].typ = walk.stack[j].typ => i = j

-----------------------------------------------------------------------------
(* C18 *)

\* the fields of a struct that are of slice type and are given a key
SliceFields(t) ==
    { i \in DOMAIN t.fields :
        /\ t.fields[i].Type.kind = "slice"
        /\ emitterIncludes(t.fields[i])
        \* the last field of a wire name is the one the outputs show
        /\ \A j \in DOMAIN t.fields :
              (j > i /\ emitterIncludes(t.fields[j])) =>
                  getJSONFieldName(t.fields[j]) # getJSONFieldName(t.fields[i]) }

\* C18: for a slice input generateJSONSchema returns a node of type array
\* whose items is the schema of the element, and generateJSONTemplate a JSON
\* array of exactly one element; a slice field is an array node with items
\* in the schema and a one-element array in the example.
C18_ArrayWrapping ==
    /\ (IsSliceSchema(schema) /\ jsonSchema # NoSchemaOut) =>
          /\ jsonSchema.mainSchema.Type = "array"
          /\ jsonSchema.mainSchema.Items = generateJSONSchema("T", StructOf(schema).elem).mainSchema
    /\ (IsSliceSchema(schema) /\ template # NoReq) =>
          /\ template.doc.k = "slice"
          /\ Len(template.doc.e) = 1
    /\ (schema.kind = "struct" /\ jsonSchema # NoSchemaOut /\ template # NoReq) =>
          \A i \in SliceFields(schema) :
              LET key == getJSONFieldName(schema.fields[i]) IN
              /\ jsonSchema.mainSchema.Properties[key].Type = "array"
              /\ jsonSchema.mainSchema.Properties[key].Items # NoSchema
              /\ template.doc.m[key].k = "slice"
              /\ Len(template.doc.m[key].e) = 1

-----------------------------------------------------------------------------
(* C19 *)

\* the fields of a struct that are of type time.Time
TimeFields(t) == { i \in DOMAIN t.fields : t.fields[i].Type = TimeType }

\* C19: a time.Time field is a string to all three: the schema has
\* {type: string, format: date-time} for it and no $ref or object, the
\* example a string, and the validator accepts that string.
C19_TimestampIsString ==
    schema.kind = "struct" =>
        \A i \in TimeFields(schema) :
            LET key == getJSONFieldName(schema.fields[i]) IN
            /\ jsonSchema # NoSchemaOut =>
                  /\ jsonSchema.mainSchema.Properties[key].Type = "string"
                  /\ jsonSchema.mainSchema.Properties[key].Format = "date-time"
                  /\ jsonSchema.mainSchema.Properties[key].Ref = ""
                  /\ jsonSchema.mainSchema.Properties[key].Properties = <<>>
            /\ template # NoReq => template.doc.m[key].k = "string"
            /\ pc = "example" => ErrorsAt(result, key) = {}

-----------------------------------------------------------------------------
(* C20 *)

ScalarKinds == {"string", "bool"} \cup SignedKinds \cup UnsignedKinds \cup FloatKinds

\* the fields of scalar kind whose example the output shows under their key
ScalarFields(t) ==
    { i \in DOMAIN t.fields :
        /\ t.fields[i].Type.kind \in ScalarKinds
        /\ generatorIncludes(t.fields[i])
        /\ \A j \in DOMAIN t.fields :
              (j > i /\ generatorIncludes(t.fields[j])) =>
                  getJSONFieldName(t.fields[j]) # getJSONFieldName(t.fields[i]) }

\* the value of the first entry of the table of the kind whose pattern the
\* name contains, letter case ignored; the default of the kind when none does
HeuristicValue(kind, name) ==
    LET n == ToLower(name) IN
    CASE kind = "string" -> StringValue(generateStringExample(n))
      [] kind \in SignedKinds \cup UnsignedKinds ->
            Float64Value(Fin(1, generateIntExample(n), 0))
      [] kind \in FloatKinds -> Float64Value(generateFloatExample(n))
      [] kind = "bool" -> BoolValue(generateBoolExample(n))

\* C20: the example of a scalar field is the value the heuristic table of
\* its kind gives for the field's wire name (first matching entry, the
\* kind's default when none matches).
C20_ExampleHeuristics ==
    (schema.kind = "struct" /\ template # NoReq) =>
        \A i \in ScalarFields(schema) :
            LET key == getJSONFieldName(schema.fields[i]) IN
            template.doc.m[key] = HeuristicValue(schema.fields[i].Type.kind, key)

-----------------------------------------------------------------------------
(* C22: type compatibility of the kinds that are not integers *)

\* the struct type validateStruct walked for the request, when it ran
ValidatedStruct ==
    LET t == IF schema.kind = "ptr" THEN schema.elem ELSE schema IN t

StructValidated ==
    /\ pc = "validated"
    /\ schema # NilSchema
    /\ ~BindBody(req).err
    /\ ValidatedStruct.kind = "struct"

\* the JSON kinds a declared type asks for, the pointer taken off; {} for
\* the kinds the claim does not speak of (integers, interfaces, ...)
ExpectedJSONKinds(t0) ==
    LET t == IF t0.kind = "ptr" THEN t0.elem ELSE t0 IN
    CASE t.kind = "string" -> {"string"}
      [] t.kind \in FloatKinds -> {"float64"}
      [] t.kind = "bool" -> {"bool"}
      [] t.kind \in {"slice", "array"} -> {"slice"}
      [] t.kind \in {"struct", "map"} -> {"map"}
      [] OTHER -> {}

\* the fields of fs the validator looks at under a wire name of their own
OwnName(fs, i) ==
    /\ validatorIncludes(fs[i])
    /\ \A j \in DOMAIN fs :
         validatorIncludes(fs[j]) /\ getJSONFieldName(fs[j]) = getJSONFieldName(fs[i])
            => j = i

-----------------------------------------------------------------------------
(* C29: keys of the payload that name no field *)

\* the wire names of the declared fields of a struct type
DeclaredNames(t) == { getJSONFieldName(t.fields[i]) : i \in DOMAIN t.fields }

\* keys a client may add, and the values it may put under them
AddedKeys == { <<"i","d">> }
AddedValues == { NilValue, UserNoAge }

\* the payloads that agree with data on every wire name of t: the keys that
\* name no field removed, replaced or added
SameOnFields(data, t) ==
    LET known == [key \in DOMAIN data \cap DeclaredNames(t) |-> data[key]]
        free == AddedKeys \ DeclaredNames(t)
    IN  { known @@ extra :
            extra \in UNION { [K -> AddedValues] : K \in SUBSET free } }

\* C29: validateStruct returns the same error list for every payload that
\* differs from the one sent only in keys that are not wire names of
\* declared fields
C29_UnknownKeysIgnored ==
    StructValidated =>
        \A other \in SameOnFields(BindBody(req).body, ValidatedStruct) :
            validateStruct(other, ValidatedStruct) = result

\* a payload with an unknown key was validated and found in error
C29_Witness ==
    /\ StructValidated
    /\ ExtraKey \in DOMAIN BindBody(req).body
    /\ ExtraKey \notin DeclaredNames(ValidatedStruct)
    /\ result # <<>>
    /\ \E k \in DOMAIN result : result[k].Type = "type_error"

-----------------------------------------------------------------------------
(* C23 *)

\* the parameter errors and the body errors of a request to an endpoint whose
\* validation middleware checks both
ParameterErrorsOf(endpoint, c) == ValidateParameters(c, endpoint.Parameters)
BodyErrorsOf(endpoint, c) ==
    IF endpoint.RequestSchema # NilSchema
       /\ endpoint.Method \in { <<"P","O","S","T">>, <<"P","U","T">>, <<"P","A","T","C","H">> }
    THEN ValidateRequestBody(c.body, endpoint.RequestSchema)
    ELSE <<>>

\* C23: a request with an invalid parameter and an invalid body, on a route
\* whose validation middleware ran, is answered by one 400 that lists every
\* parameter error and every body error (the parameters' first).
C23_FullEnumeration ==
    (pc = "served" /\ Matching(an, ctx) # <<>> /\ Validated(ServedRoute)
        /\ RanKinds({"validation"}) # {}) =>
        LET endpoint == EndpointOf(ServedRoute)
            ofParams == ParameterErrorsOf(endpoint, ctx)
            ofBody == BodyErrorsOf(endpoint, ctx)
        IN  (ofParams # <<>> /\ ofBody # <<>>) =>
                /\ resp.status = 400
                /\ Len(resp.errors) = Len(ofParams) + Len(ofBody)
                /\ SubSeq(resp.errors, 1, Len(ofParams)) = ofParams
                /\ SubSeq(resp.errors, Len(ofParams) + 1, Len(resp.errors)) = ofBody

-----------------------------------------------------------------------------
(* C27 *)

\* C27: on a route the app serves for POST, PUT or PATCH (in whatever letter
\* case the method was given to DocumentedRoute) and registered with a
\* request schema, the route handler runs only for a request whose body
\* passes ValidateRequestBody.
C27_BodyValidatedAnyCase ==
    (pc = "served" /\ Matching(an, ctx) # <<>> /\ Validated(ServedRoute)
        /\ ServedRoute.method \in { <<"P","O","S","T">>, <<"P","U","T">>, <<"P","A","T","C","H">> }
        /\ EndpointOf(ServedRoute).RequestSchema # NilSchema) =>
        (RanKinds({"route"}) # {} =>
            ValidateRequestBody(ctx.body, EndpointOf(ServedRoute).RequestSchema) = <<>>)

-----------------------------------------------------------------------------
(* C25 *)

\* C25: a call of DocumentedRoute that returns an error leaves the ApiNote
\* as it was: no endpoint is added to or overwritten in the registry and no
\* route is added to the app.
C25_FailedRouteLeavesNoTrace ==
    [][ (pc' = "DocumentedRoute" /\ LastCall.err # "nil") =>
            (an'.endpoints = an.endpoints /\ an'.app = an.app) ]_vars

-----------------------------------------------------------------------------
(* C26 *)

\* the route a successful DocumentedRoute call added: the last of the app
AddedRoute(a) == a.app[Len(a.app)]

\* the positions of the authentication middlewares in a chain of handlers
AuthPositions(handlers) ==
    { i \in DOMAIN handlers : handlers[i].kind \in {"jwt", "auth"} }

\* C26: the chain of a registered route holds an authentication middleware,
\* ahead of the validation middleware and of the route handler, iff the
\* endpoint is documented with AuthRequired = true.
C26_DocumentedIffEnforced ==
    [][ (pc' = "DocumentedRoute" /\ LastCall.err = "nil") =>
            LET handlers == AddedRoute(an').handlers
                endpoint == an'.endpoints[KeyOf(LastCall.args)]
            IN  /\ endpoint.AuthRequired <=> AuthPositions(handlers) # {}
                /\ \A i \in AuthPositions(handlers) :
                     \A j \in DOMAIN handlers :
                        handlers[j].kind \in {"validation", "route"} => i < j ]_vars

-----------------------------------------------------------------------------
(* OpenAPI document generation *)

\* strings.HasPrefix, strings.HasSuffix
HasPrefix(s, prefix) == Len(s) >= Len(prefix) /\ SubSeq(s, 1, Len(prefix)) = prefix
HasSuffix(s, suffix) ==
    Len(s) >= Len(suffix) /\ SubSeq(s, Len(s) - Len(suffix) + 1, Len(s)) = suffix

\* strings.Trim(s, cutset) for a cutset of one character
RECURSIVE Trim(_, _)
Trim(s, c) ==
    IF s # <<>> /\ s[1] = c THEN Trim(Tail(s), c)
    ELSE IF s # <<>> /\ s[Len(s)] = c THEN Trim(SubSeq(s, 1, Len(s) - 1), c)
    ELSE s

\* strings.Join(parts, "")
RECURSIVE Join(_)
Join(parts) == IF parts = <<>> THEN <<>> ELSE parts[1] \o Join(Tail(parts))

\* toTitle: the first character in upper case
toTitle(s) == IF s = <<>> THEN s ELSE << ToUpperChar(s[1]) >> \o Tail(s)

\* generateOperationID: the loop over the segments from i on
RECURSIVE operationIDParts(_, _)
operationIDParts(segments, i) ==
    IF i > Len(segments) THEN <<>>
    ELSE LET segment == segments[i]
             rest == operationIDParts(segments, i + 1)
         IN  IF segment = <<"a","p","i">> \/ (HasPrefix(segment, <<"v">>) /\ Len(segment) <= 3)
             THEN rest
             ELSE IF HasPrefix(segment, <<":">>)
             THEN << <<"B","y">> \o toTitle(Tail(segment)) >> \o rest
             ELSE IF HasPrefix(segment, <<"{">>) /\ HasSuffix(segment, <<"}">>)
             THEN << <<"B","y">> \o toTitle(SubSeq(segment, 2, Len(segment) - 1)) >> \o rest
             ELSE << toTitle(segment) >> \o rest

\* generateOperationID
generateOperationID(method, path) ==
    LET cleanPath == Trim(path, "/")
        segments == Split(cleanPath, "/")
    IN  Join(<< ToLower(method) >> \o operationIDParts(segments, 1))

\* extractTagsFromPath: the first segment that is no prefix and no parameter
extractTagsFromPath(path) ==
    LET segments == Split(Trim(path, "/"), "/")
        tagged == { i \in DOMAIN segments :
                      /\ segments[i] # <<>> /\ segments[i] # <<"a","p","i">>
                      /\ ~HasPrefix(segments[i], <<"v">>)
                      /\ ~HasPrefix(segments[i], <<":">>)
                      /\ ~HasPrefix(segments[i], <<"{">>) }
    IN  IF tagged = {} THEN <<>>
        ELSE << segments[CHOOSE i \in tagged : \A j \in tagged : i <= j] >>

\* parameterTypeToJSONSchema
parameterTypeToJSONSchema(paramType) ==
    LET t == ToLower(paramType) IN
    CASE t = <<"s","t","r","i","n","g">> -> [JSONSchema EXCEPT !.Type = "string"]
      [] t \in { <<"n","u","m","b","e","r">>, <<"f","l","o","a","t">>, <<"d","o","u","b","l","e">> } -> [JSONSchema EXCEPT !.Type = "number"]
      [] t \in { <<"i","n","t","e","g","e","r">>, <<"i","n","t">> } -> [JSONSchema EXCEPT !.Type = "integer"]
      [] t \in { <<"b","o","o","l","e","a","n">>, <<"b","o","o","l">> } -> [JSONSchema EXCEPT !.Type = "boolean"]
      [] OTHER -> [JSONSchema EXCEPT !.Type = "string"]

\* ParameterSpec
ParameterSpec(param) ==
    [Name |-> param.Name, In |-> param.In, Required |-> param.Required,
     Schema |-> parameterTypeToJSONSchema(param.Type)]

\* Operation.RequestBody nil
NoRequestBody == [nil |-> TRUE]

\* endpointToOperation: the operation, and componentSchemas with the nested
\* schemas of the request type added under the names it does not hold yet.
\* The endpoints of the model declare no description and no responses, so
\* the operation gets the default response.
endpointToOperation(endpoint, componentSchemas) ==
    LET generated == generateJSONSchema("RequestBody", endpoint.RequestSchema)
        exampleJSON == generateJSONTemplate(endpoint.RequestSchema)
    IN  [operation |->
            [OperationID |-> generateOperationID(endpoint.Method, endpoint.Path),
             Tags |-> extractTagsFromPath(endpoint.Path),
             Security |-> IF endpoint.AuthRequired THEN << "bearerAuth" >> ELSE <<>>,
             Parameters |-> [i \in DOMAIN endpoint.Parameters |->
                                ParameterSpec(endpoint.Parameters[i])],
             RequestBody |-> IF endpoint.RequestSchema # NilSchema
                             THEN [Required |-> TRUE,
                                   Schema |-> generated.mainSchema,
                                   Example |-> exampleJSON.doc]
                             ELSE NoRequestBody,
             Responses |-> ("200" :> "Successful response")],
         componentSchemas |->
            IF endpoint.RequestSchema # NilSchema
            THEN componentSchemas @@ generated.componentSchemas
            ELSE componentSchemas]

\* the field of PathItem GenerateOpenAPISpec's switch assigns for a method
PathItemFields ==
    (<<"G","E","T">> :> "get") @@ (<<"P","O","S","T">> :> "post") @@ (<<"P","U","T">> :> "put") @@ (<<"D","E","L","E","T","E">> :> "delete")
    @@ (<<"P","A","T","C","H">> :> "patch") @@ (<<"H","E","A","D">> :> "head") @@ (<<"O","P","T","I","O","N","S">> :> "options")
    @@ (<<"T","R","A","C","E">> :> "trace")

\* the paths the document starts with, and one iteration of
\* GenerateOpenAPISpec's loop over an.endpoints: the operation goes into the
\* path item of the endpoint's path
NoPaths == <<>>
withOperation(paths, endpoint, operation) ==
    LET pathItem == IF endpoint.Path \in DOMAIN paths THEN paths[endpoint.Path] ELSE <<>>
        method == ToUpper(endpoint.Method)
        assigned == IF method \in DOMAIN PathItemFields
                    THEN (PathItemFields[method] :> operation) @@ pathItem
                    ELSE pathItem
    IN  (endpoint.Path :> assigned) @@ paths

\* the security schemes of the document: bearerAuth when an endpoint
\* requires authentication
securitySchemes(a) ==
    IF \E key \in DOMAIN a.endpoints : a.endpoints[key].AuthRequired
    THEN {"bearerAuth"} ELSE {}

\* the OpenAPISpec returned
OpenAPISpec(a, paths, schemas) ==
    [OpenAPI |-> "3.1.0", Paths |-> paths, Schemas |-> schemas,
     SecuritySchemes |-> securitySchemes(a)]

\* GenerateOpenAPISpec when range an.endpoints yields the keys in the given
\* order
RECURSIVE documentInOrder(_, _, _, _)
documentInOrder(a, order, paths, schemas) ==
    IF order = <<>> THEN OpenAPISpec(a, paths, schemas)
    ELSE LET endpoint == a.endpoints[order[1]]
             out == endpointToOperation(endpoint, schemas)
         IN  documentInOrder(a, Tail(order),
                             withOperation(paths, endpoint, out.operation),
                             out.componentSchemas)

\* the orders in which a range over a map yields its keys: any
Orders(keys) ==
    { order \in [1..Cardinality(keys) -> keys] :
        \A i, j \in DOMAIN order : order[i] = order[j] => i = j }

\* GenerateOpenAPISpec: the documents a call may return
GenerateOpenAPISpec(a) ==
    { documentInOrder(a, order, NoPaths, <<>>) : order \in Orders(DOMAIN a.endpoints) }

-----------------------------------------------------------------------------
(* Concurrent calls on an ApiNote whose routes are registered *)

MaxEndpoints == 2
MaxProcs == 2

Goroutines == 1..MaxProcs

\* two struct types named User, declared in two packages
UserA ==
    StructType("notelink", "User",
        << Field(<<"N","a","m","e">>, "", <<"n","a","m","e">>, Prim("string")) >>)
UserB ==
    StructType("models", "User",
        << Field(<<"I","D">>, "", <<"i","d">>, Prim("int")) >>)

\* the routes the programs register: two versions of a resource, a method in
\* two letter cases, and request types of the same name
DocRoutes ==
    { DocumentedRouteInput(<<"G","E","T">>, <<"/","v","1","/","u","s","e","r","s">>, RouteHandler("h"), <<>>, NilSchema, NilBool),
      DocumentedRouteInput(<<"G","E","T">>, <<"/","v","2","/","u","s","e","r","s">>, RouteHandler("h"), <<>>, UserB, NilBool),
      DocumentedRouteInput(<<"P","O","S","T">>, <<"/","u","s","e","r","s">>, RouteHandler("h"), <<>>, UserA, NilBool),
      DocumentedRouteInput(<<"p","o","s","t">>, <<"/","u","s","e","r","s">>, RouteHandler("h"), << AgeParam >>, NilSchema, NilBool) }

\* the ApiNote after DocumentedRoute was called for every input of a set
RECURSIVE Registered(_, _)
Registered(a, inputs) ==
    IF inputs = {} THEN a
    ELSE LET input == CHOOSE input \in inputs : TRUE
         IN  Registered(DocumentedRoute(a, input).an, inputs \ {input})

\* the calls the goroutines make: the entry point and its argument
DocCalls ==
    { [fn |-> "GenerateOpenAPISpec", arg |-> NilSchema, body |-> NoReq],
      [fn |-> "generateJSONSchema", arg |-> TestNestedStruct, body |-> NoReq],
      [fn |-> "generateJSONTemplate", arg |-> UserA, body |-> NoReq],
      [fn |-> "ValidateRequestBody", arg |-> TestUser, body |-> JSONBody(UserNoAge)] }

\* a goroutine: its call, where it is in it, what range an.endpoints has yet
\* to yield, the paths and component schemas of the document under
\* construction, the operations built, and the value returned
NoReturn == [none |-> TRUE]
IdleProc ==
    [call |-> [fn |-> "none"], pc |-> "idle", todo |-> {}, paths |-> NoPaths,
     schemas |-> <<>>, operations |-> <<>>, ret |-> NoReturn]

\* one component map kept between the calls
componentsShared(g) == 1

\* spec.Components.Schemas: the map the call of goroutine g made
componentsOf(g) == g

InitDocs ==
    /\ arch = "amd64"
    /\ schema = NilSchema
    /\ req = NoReq
    /\ result = <<>>
    /\ pc = "idle"
    /\ template = NoReq
    /\ jsonSchema = NoSchemaOut
    /\ typescript = NoTypeScript
    /\ params = NoParams
    /\ ctx = NoCtx
    /\ \E inputs \in SUBSET DocRoutes :
          /\ Cardinality(inputs) <= MaxEndpoints
          /\ an = Registered(NewApiNote(Config, "s3cret"), inputs)
    /\ resp = NoResp
    /\ walk = NoWalk
    /\ procs = [g \in Goroutines |-> IdleProc]

DocsUnchanged ==
    UNCHANGED <<arch, schema, req, result, pc, template, jsonSchema, typescript, params, ctx, an, resp, walk>>

\* a goroutine enters GenerateOpenAPISpec: the document and its maps are made
CallGenerateOpenAPISpec(g) ==
    /\ procs[g].pc = "idle"
    /\ LET entered == [procs EXCEPT ![g] =
                          [IdleProc EXCEPT !.call = [fn |-> "GenerateOpenAPISpec", arg |-> NilSchema, body |-> NoReq],
                                           !.pc = "running",
                                           !.schemas = procs[g].schemas,
                                           !.todo = DOMAIN an.endpoints]]
       IN  procs' = [entered EXCEPT ![componentsOf(g)].schemas = <<>>]
    /\ DocsUnchanged

\* one iteration of the loop over an.endpoints, for whichever key the range
\* yields next
IterateEndpoints(g) ==
    /\ procs[g].pc = "running"
    /\ procs[g].call.fn = "GenerateOpenAPISpec"
    /\ \E key \in procs[g].todo :
         LET endpoint == an.endpoints[key]
             out == endpointToOperation(endpoint, procs[componentsOf(g)].schemas)
             iterated == [procs EXCEPT
                            ![g].todo = @ \ {key},
                            ![g].paths = withOperation(@, endpoint, out.operation),
                            ![g].operations = (key :> out.operation) @@ @]
         IN  procs' = [iterated EXCEPT ![componentsOf(g)].schemas = out.componentSchemas]
    /\ DocsUnchanged

\* GenerateOpenAPISpec returns the document, which holds the paths
ReturnOpenAPISpec(g) ==
    /\ procs[g].pc = "running"
    /\ procs[g].call.fn = "GenerateOpenAPISpec"
    /\ procs[g].todo = {}
    /\ procs' = [procs EXCEPT
                   ![g].pc = "done",
                   ![g].paths = NoPaths,
                   ![g].ret = OpenAPISpec(an, procs[g].paths, procs[componentsOf(g)].schemas)]
    /\ DocsUnchanged

\* a goroutine enters generateJSONSchema, generateJSONTemplate or
\* ValidateRequestBody
CallPure(g) ==
    /\ procs[g].pc = "idle"
    /\ \E call \in { c \in DocCalls : c.fn # "GenerateOpenAPISpec" } :
         procs' = [procs EXCEPT ![g].call = call, ![g].pc = "running"]
    /\ DocsUnchanged

\* what such a call returns: it works on values of its own
returned(call) ==
    CASE call.fn = "generateJSONSchema" -> generateJSONSchema("RequestBody", call.arg)
      [] call.fn = "generateJSONTemplate" -> generateJSONTemplate(call.arg)
      [] call.fn = "ValidateRequestBody" -> ValidateRequestBody(call.body, call.arg)

ReturnPure(g) ==
    /\ procs[g].pc = "running"
    /\ procs[g].call.fn # "GenerateOpenAPISpec"
    /\ procs' = [procs EXCEPT ![g].pc = "done", ![g].ret = returned(procs[g].call)]
    /\ DocsUnchanged

NextDocs ==
    \E g \in Goroutines :
        \/ CallGenerateOpenAPISpec(g)
        \/ IterateEndpoints(g)
        \/ ReturnOpenAPISpec(g)
        \/ CallPure(g)
        \/ ReturnPure(g)

SpecDocs == InitDocs /\ [][NextDocs]_vars

-----------------------------------------------------------------------------
(* C21 *)

\* what the call of a goroutine returns when no other call runs
Alone(a, call) ==
    IF call.fn = "GenerateOpenAPISpec" THEN GenerateOpenAPISpec(a)
    ELSE { returned(call) }

\* C21: whatever the interleaving of the calls of the goroutines, a step of
\* one call writes neither to the ApiNote nor to anything another call
\* holds, and a call that returns returns a value it returns when it runs
\* alone.
C21_CallsShareNothing ==
    [][ /\ an' = an
        /\ \A g, h \in Goroutines :
              (procs'[g] # procs[g] /\ procs'[h] # procs[h]) => g = h
        /\ \A g \in Goroutines :
              (procs[g].pc # "done" /\ procs'[g].pc = "done") =>
                  procs'[g].ret \in Alone(an, procs'[g].call) ]_vars

\* one call has returned a document with component schemas while another is
\* half way through its loop over the endpoints
C21_Witness ==
    /\ procs # NoProcs
    /\ \E g, h \in Goroutines :
         /\ g # h
         /\ procs[g].pc = "done" /\ procs[g].call.fn = "GenerateOpenAPISpec"
         /\ procs[g].ret.Schemas # <<>>
         /\ procs[h].pc = "running" /\ procs[h].call.fn = "GenerateOpenAPISpec"
         /\ procs[h].todo # {} /\ procs[h].todo # DOMAIN an.endpoints

-----------------------------------------------------------------------------
(* C24 *)

\* C24: the operations GenerateOpenAPISpec builds for two endpoints that
\* differ in method (letter case aside) or in path have different
\* operation IDs.
C24_OperationIDsUnique ==
    procs # NoProcs =>
    \A g \in Goroutines :
        (procs[g].pc = "done" /\ procs[g].call.fn = "GenerateOpenAPISpec") =>
            \A k1, k2 \in DOMAIN procs[g].operations :
                (\/ ToUpper(an.endpoints[k1].Method) # ToUpper(an.endpoints[k2].Method)
                 \/ an.endpoints[k1].Path # an.endpoints[k2].Path)
                => procs[g].operations[k1].OperationID # procs[g].operations[k2].OperationID

-----------------------------------------------------------------------------
(* C28 *)

\* C28: two calls of GenerateOpenAPISpec on the same registry return equal
\* documents, whatever order the registry was iterated in.
C28_DocumentDeterministic ==
    procs # NoProcs =>
    \A g, h \in Goroutines :
        (/\ procs[g].pc = "done" /\ procs[g].call.fn = "GenerateOpenAPISpec"
         /\ procs[h].pc = "done" /\ procs[h].call.fn = "GenerateOpenAPISpec")
        => procs[g].ret = procs[h].ret

-----------------------------------------------------------------------------
(* C30: TypeScript interface against JSON schema *)

\* the struct type the two generators are asked about
GeneratedFor == typescript # NoTypeScript /\ jsonSchema # NoSchemaOut

\* the field names the main interface declares
InterfaceNames ==
    LET ts == typescript[1].ts
        main == ts[Len(ts)]
    IN  { main.lines[i].name : i \in DOMAIN main.lines }

\* the property names of the JSON schema of the same type
PropertyNames ==
    LET main == jsonSchema.mainSchema
    IN  IF main.Type = "array" THEN DOMAIN main.Items.Properties
        ELSE DOMAIN main.Properties

\* C30: once both generators have run on a struct type, the TypeScript
\* interface declares exactly the field names that are the properties of the
\* JSON schema: unexported fields and fields tagged "-" are in neither.
C30_SameFieldNames ==
    (GeneratedFor /\ typescript[1].ts # <<>>) => InterfaceNames = PropertyNames

====
